---- MODULE Spec2Model ----
(***************************************************************************)
(* Model of the syslog analyzer's ingestion and delivery pipeline:         *)
(* shared listeners and IP routing (syslog/listener.go), the listener      *)
(* registry of the application, the per-source batching worker and the     *)
(* per-destination queues and workers of SyslogSource, the synchronous     *)
(* variant of processBatch (syslog/source.go) and the HEC retry loop       *)
(* (destinations/destinations.go).                                         *)
(***************************************************************************)
EXTENDS Integers, Sequences, FiniteSets, TLC

(***************************************************************************)
(* Bounds of the model.                                                    *)
(***************************************************************************)
\* number of datagrams / lines the listeners read in one behaviour
MaxMsgs == 3
\* number of datagrams / lines read in a behaviour of SpecListener
MaxRouted == 1
\* capacity of the ingestion queue, make(chan []byte, 10000), scaled down
QueueCap == 2
\* capacity of one destination queue, make(chan []byte, 10000), scaled down
DestQueueCap == 2
\* batchSize := 1000 of the batch worker and the destination workers, scaled down
BatchSize == 3
\* failed replies a HEC endpoint gives before it recovers
MaxFailures == 1
\* size of the CircularBuffer, NewCircularBuffer(3600), scaled down
RingSize == 2
MaxAge == 3
MaxRules == 2
MaxFilterBatch == 2
MaxTime == 4
MaxAggEvents == 3
MaxStorageBatch == 2
MaxStored == 8
MaxSample == 2
MaxParseBatch == 2
LogQueueCap == 2
MaxConfigMsgs == 2
MaxListeners == 2
MaxDatagram == 2
MaxFiles == 3
MaxClock == 5
ReceivingWindow == 3
\* goroutines that call Enqueue and Dequeue of one LogQueue
MaxCallers == 3

None == "none"

(***************************************************************************)
(* Configuration: the SourceConfig values the application was given.       *)
(* A is an exact-IP source with a HEC destination, a storage destination   *)
(* and a disabled destination; W is a wildcard source in simulation mode;  *)
(* E has an empty IP (registered under the wildcard key, as W is) and a    *)
(* lower-case protocol; T listens on another (protocol, port) and has two  *)
(* enabled destinations whose Config lacks the path, or the url and the    *)
(* api_key, next to a HEC destination that has them.                       *)
(***************************************************************************)
Sources == {"A", "W", "E", "T"}

Dest(id, type, enabled) == [ID |-> id, Type |-> type, Enabled |-> enabled, Configured |-> TRUE]

\* a destination whose Config has no "path", or no "url" and "api_key"
DestWithout(id, type, enabled) ==
  [ID |-> id, Type |-> type, Enabled |-> enabled, Configured |-> FALSE]

Config ==
  [s \in Sources |->
     CASE s = "A" -> [Name |-> "A", IP |-> "10.0.0.1", Port |-> 514, Protocol |-> "UDP",
                      SimulationMode |-> FALSE,
                      Destinations |-> << Dest("h", "hec", TRUE),
                                          Dest("f", "storage", TRUE),
                                          Dest("x", "storage", FALSE) >>]
       [] s = "W" -> [Name |-> "W", IP |-> "0.0.0.0", Port |-> 514, Protocol |-> "UDP",
                      SimulationMode |-> TRUE,
                      Destinations |-> << Dest("g", "storage", TRUE) >>]
       [] s = "E" -> [Name |-> "E", IP |-> "", Port |-> 514, Protocol |-> "udp",
                      SimulationMode |-> FALSE,
                      Destinations |-> << >>]
       [] s = "T" -> [Name |-> "T", IP |-> "10.0.0.1", Port |-> 515, Protocol |-> "TCP",
                      SimulationMode |-> FALSE,
                      Destinations |-> << DestWithout("u", "hec", TRUE),
                                          DestWithout("p", "storage", TRUE),
                                          Dest("k", "hec", TRUE) >>]]

\* peer addresses datagrams and connections come from
PeerIPs == {"10.0.0.1", "10.0.0.9"}

\* payloads: a raw line and a JSON object
Payloads == {"a", "{}"}

PayloadSize(d) == IF d = "a" THEN 1 ELSE 2

\* strings.ToUpper on the protocol names in use
ToUpper(p) == IF p \in {"udp", "UDP"} THEN "UDP" ELSE "TCP"

\* listenerKey := fmt.Sprintf("%d:%s", port, strings.ToUpper(protocol))
ListenerKey(protocol, port) == << port, ToUpper(protocol) >>

KeyOf(s) == ListenerKey(Config[s].Protocol, Config[s].Port)

Keys == {KeyOf(s) : s \in Sources}

\* sourceKey of AddSource / RemoveSource: the IP, "" mapped to "0.0.0.0"
SourceKey(s) == IF Config[s].IP = "" THEN "0.0.0.0" ELSE Config[s].IP

\* destinations that got a queue in NewSyslogSource: the enabled ones
DestIDs(s) == {Config[s].Destinations[i].ID : i \in 1..Len(Config[s].Destinations)}

\* a NewSyslogSource that makes a queue for every configured destination
QueueForEveryDest(s) == DestIDs(s)

EnabledDestIDs(s) ==
  {Config[s].Destinations[i].ID :
     i \in {j \in 1..Len(Config[s].Destinations) : Config[s].Destinations[j].Enabled}}

\* the destination workers of one source that write to storage: f and g are
\* configured with the same path, j with another
StorageWriters == {"f", "g", "j"}

\* cfg["path"] of the destination of a worker
WriterPath(w) == IF w = "j" THEN "q" ELSE "p"

StoragePaths == {WriterPath(w) : w \in StorageWriters}

\* the two storage sinks of the repository: WriteBatchToStorage with its
\* package-level state, and a StorageHandler
StorageSinks == {"sink", "handler"}

VARIABLES
  isRunning,        \* SyslogSource.isRunning, per source
  sharedListeners,  \* Application.sharedListeners: listener key -> SharedListener
  openSockets,      \* per (port, protocol): number of open listening sockets of the process
  listenPc,         \* per listener key: position of the socket read loop
  pendingSend,      \* per listener key: the send on a full queue the read loop waits in
  nextId,           \* sequence number of the next message read from a socket
  lastOp,           \* the last call made on a source or listener, and its outcome
  eventCount,       \* SyslogSource.eventCount
  dataSize,         \* SyslogSource.dataSize
  processedCount,   \* SyslogSource.processedCount
  queue,            \* SyslogSource.queue: the ingestion channel
  received,         \* number of messages processMessage of the source was called with
  workerStarted,    \* startWorker has launched the goroutines of the source
  workerPc,         \* position of the batch worker of the source
  batch,            \* the pending batch of the batch worker
  destQueues,       \* SyslogSource.destQueues: destination ID -> channel
  destQueueLength,  \* destMetrics[destID].QueueLength
  destProcessed,    \* destMetrics[destID].ProcessedCount
  destBatch,        \* the pending batch of each destination worker
  destCall,         \* the PostBatchToHEC call a destination worker is in
  hecFailures,      \* failed replies of the HEC endpoint of a destination so far
  written,          \* the records appended to the storage files, per destination
  posted,           \* the events a HEC endpoint accepted, per destination
  metricsPc,        \* position of calculateMetrics, which holds s.mutex while it runs
  current,          \* currentEvents and currentDataSize loaded by calculateMetrics
  lastUpdateSet,    \* !s.lastUpdate.IsZero()
  buffer,           \* SyslogSource.buffer: the CircularBuffer of data points
  metrics,          \* SyslogSource.metrics
  syncIdx,          \* synchronous processBatch: index of the destination it is at, 0 outside
  syncEvents,       \* synchronous processBatch: the events of the batch
  syncCall,         \* synchronous processBatch: the PostBatchToHEC call it is in
  waited,           \* seconds since the batch worker entered its select (age of its time.After)
  pendingAge,       \* seconds the oldest message of the pending batch has been in it
  engine,           \* filtering.Engine: whether NewEngine has run, and its rules
  filterIn,         \* the events of the last Engine.ProcessBatch call
  filterOut,        \* what that call returned
  now,              \* time.Now(), in seconds
  aggPending,       \* parsed events waiting for Aggregator.ProcessBatch
  aggParsed,        \* number of events parsed so far
  groups,           \* Aggregator.groups: group key -> AggregationGroup
  aggOut,           \* what the last Aggregator.ProcessBatch call returned
  handler,          \* a StorageHandler: currentFile, eventCount, and the files it has created
  storageState,     \* storageState.files[key] of WriteBatchToStorage, and the files created
  ring,             \* a CircularBuffer of time-stamped data points
  added,            \* every data point Add was called with on ring, in order
  averages,         \* what GetAverage returned at the last tick: hourly and daily
  parseIn,          \* the batch of the last processBatch call that built events
  parseOut,         \* the events that call built
  lpQueue,          \* LogProcessor.queue: the LogQueue of batches
  lpLast,           \* the last ProcessRawMessage call: its payload and the event parsed from it
  callPc,           \* per source: where the Start or Stop call in progress on it is, "idle" if none
  callRef,          \* per source: the listener GetSharedListener returned to that call
  running,          \* per source: SyslogSource.isRunning, as the calls in progress see it
  listenerObjs,     \* the SharedListener objects created so far: open socket, sources map
  registry,         \* app.sharedListeners[key] for the key of UDP 514: a listener object, 0 if none
  routing,          \* per listener object: where its read loop is in routeMessage, and the peer IP
  udpBuffer,        \* the read buffer of handleUDPConnections
  sliceQueue,       \* the ingestion queue as slices of the read buffer, with the bytes received
  sliceBatch,       \* the pending batch of the batch worker, as slices
  sliceEvents,      \* the events the last processBatch built from such a batch
  fileObjs,         \* the files WriteBatchToStorage created: open handle, writers, closer, key
  fileState,        \* storageState.files: key -> the file object in use, 0 if none
  writerPc,         \* per destination worker: inside WriteBatchToStorage after the unlock, or idle
  writerFile,       \* per destination worker: the state (file object) its call holds
  writerLeft,       \* per destination worker: events of the batch still to encode
  closedWrite,      \* an Encode was made on a handle that had been closed
  fsNow,            \* the wall clock in seconds, as the file names of the storage sinks show it
  disk,             \* per storage sink: the files of its directory, name -> number of records
  fsState,          \* per storage sink: whether it has a file open, its name, and the eventCount
  createdNames,     \* per storage sink: the names it has given to os.Create, in order
  truncated,         \* per storage sink: an os.Create emptied a file that held records
  rcvNow,           \* the wall clock, in seconds
  lastMessageTime,  \* SyslogSource.lastMessageTime (LogProcessor.lastMessageAt): set, and the time
  lastArrival,      \* the arrival of the last message, as the peer saw it: any, and the time
  tickPc,           \* where calculateMetrics is: before its tick, or between time.Now() and the read of lastMessageTime
  tickNow,          \* now of the calculateMetrics call in progress or of the last one
  isReceiving,      \* SourceMetrics.IsReceiving as calculateMetrics left it
  lpReceiving,       \* the last LogProcessor.GetMetrics call: made, at what time, and its isReceiving
  liveEPS,          \* s.metrics.RealTimeEPS, a field of the struct the ticker writes
  liveDest,         \* the map s.metrics.DestMetrics points to: destination -> QueueLength
  snapTickPc,       \* where calculateMetrics is: "wait", or "writing" the map under s.mutex
  snapTodo,         \* the destinations the loop of calculateMetrics has still to write
  snapshot,         \* the value the last GetMetrics call returned: taken, its RealTimeEPS, its DestMetrics (the map header)
  snapTaken,        \* what that value showed when it was returned
  readerPc,          \* the caller of GetMetrics: "idle", or "reading" the DestMetrics of the value it holds
  hDestinations,    \* Handler.destinations: key -> the processor, named by the source and destination it was added for
  hInvoked,          \* the last Handler.ProcessBatch call: made, its sourceName, and the processors it gave the batch
  qBatches,         \* LogQueue.batches, the buffered channel
  qDepth,           \* LogQueue.depth
  qPc,              \* the position of each caller inside Enqueue or Dequeue
  qReturn           \* what the last call of each caller returned

listenerVars == << isRunning, sharedListeners, openSockets, listenPc, pendingSend, nextId, lastOp >>
sourceVars == << eventCount, dataSize, processedCount, queue, received >>
workerVars == << workerStarted, workerPc, batch >>
destVars == << destQueues, destQueueLength, destProcessed, destBatch, destCall, hecFailures,
               written, posted >>
metricsVars == << metricsPc, current, lastUpdateSet, buffer, metrics >>
syncVars == << syncIdx, syncEvents, syncCall >>
timerVars == << waited, pendingAge >>
filterVars == << engine, filterIn, filterOut >>
aggVars == << now, aggPending, aggParsed, groups, aggOut >>
storageVars == << handler, storageState >>
ringVars == << ring, added, averages >>
parseVars == << parseIn, parseOut, lpQueue, lpLast >>
lockVars == << callPc, callRef, running, listenerObjs, registry, routing >>
sliceVars == << udpBuffer, sliceQueue, sliceBatch, sliceEvents >>
fileVars == << fileObjs, fileState, writerPc, writerFile, writerLeft, closedWrite >>
\* the state of the later sections, one tuple per section
nameVars == << fsNow, disk, fsState, createdNames, truncated >>
recvVars == << rcvNow, lastMessageTime, lastArrival, tickPc, tickNow, isReceiving, lpReceiving >>
snapVars == << liveEPS, liveDest, snapTickPc, snapTodo, snapshot, snapTaken, readerPc >>
procVars == << hDestinations, hInvoked >>
depthVars == << qBatches, qDepth, qPc, qReturn >>
moreVars == << nameVars, recvVars, snapVars, procVars, depthVars >>
extVars == << parseVars, lockVars, sliceVars, fileVars, moreVars >>
compVars == << filterVars, aggVars, storageVars, ringVars, extVars >>
pipelineVars == << listenerVars, sourceVars, workerVars, destVars, metricsVars, syncVars, timerVars >>
vars == << listenerVars, sourceVars, workerVars, destVars, metricsVars, syncVars, timerVars, compVars >>

\* what the steps of one component leave alone
lockRest == << pipelineVars, filterVars, aggVars, storageVars, ringVars, parseVars, sliceVars, fileVars, moreVars >>
sliceRest == << pipelineVars, filterVars, aggVars, storageVars, ringVars, parseVars, lockVars, fileVars, moreVars >>
fileRest == << pipelineVars, filterVars, aggVars, storageVars, ringVars, parseVars, lockVars, sliceVars, moreVars >>
oldVars == << pipelineVars, filterVars, aggVars, storageVars, ringVars, parseVars, lockVars, sliceVars, fileVars >>
\* what the actions of one section leave alone
nameRest == << oldVars, recvVars, snapVars, procVars, depthVars >>
recvRest == << oldVars, nameVars, snapVars, procVars, depthVars >>
snapRest == << oldVars, nameVars, recvVars, procVars, depthVars >>
procRest == << oldVars, nameVars, recvVars, snapVars, depthVars >>
depthRest == << oldVars, nameVars, recvVars, snapVars, procVars >>

(***************************************************************************)
(* Maps with a changing domain (Go maps).                                  *)
(***************************************************************************)
MapPut(f, k, v) == [x \in DOMAIN f \cup {k} |-> IF x = k THEN v ELSE f[x]]
MapDelete(f, k) == [x \in DOMAIN f \ {k} |-> f[x]]
EmptyMap == [x \in {} |-> None]

\* no PostBatchToHEC call in progress
NoCall == [pc |-> "idle", events |-> << >>, elapsed |-> 0]

\* a MetricDataPoint without data
NoPoint == [LogCount |-> 0, DataSize |-> 0]

\* NewCircularBuffer(size): size zero points, head and count 0
NewCircularBuffer == [buffer |-> [i \in 0..(RingSize - 1) |-> NoPoint], head |-> 0, count |-> 0]

\* the SourceMetrics of NewSyslogSource; a rate in GB is kept as its bytes,
\* an average in GB as the pair of total bytes and number of points
NewMetrics(s) ==
  [RealTimeEPS |-> 0, RealTimeBytes |-> 0,
   HourlyAvgLogs |-> 0, HourlyAvgBytes |-> << 0, 0 >>,
   DestMetrics |-> [d \in EnabledDestIDs(s) |-> [QueueLength |-> 0, ProcessedCount |-> 0]]]

Init ==
  /\ isRunning = [s \in Sources |-> FALSE]
  /\ sharedListeners = EmptyMap
  /\ openSockets = [k \in Keys |-> 0]
  /\ listenPc = [k \in Keys |-> "closed"]
  /\ pendingSend = [k \in Keys |-> None]
  /\ nextId = 1
  /\ lastOp = [op |-> "init"]
  /\ eventCount = [s \in Sources |-> 0]
  /\ dataSize = [s \in Sources |-> 0]
  /\ processedCount = [s \in Sources |-> 0]
  /\ queue = [s \in Sources |-> << >>]
  /\ received = [s \in Sources |-> 0]
  /\ workerStarted = [s \in Sources |-> FALSE]
  /\ workerPc = [s \in Sources |-> "select"]
  /\ batch = [s \in Sources |-> << >>]
  /\ destQueues = [s \in Sources |-> [d \in EnabledDestIDs(s) |-> << >>]]
  /\ destQueueLength = [s \in Sources |-> [d \in EnabledDestIDs(s) |-> 0]]
  /\ destProcessed = [s \in Sources |-> [d \in EnabledDestIDs(s) |-> 0]]
  /\ destBatch = [s \in Sources |-> [d \in EnabledDestIDs(s) |-> << >>]]
  /\ destCall = [s \in Sources |-> [d \in EnabledDestIDs(s) |-> NoCall]]
  /\ hecFailures = [s \in Sources |-> [d \in DestIDs(s) |-> 0]]
  /\ written = [s \in Sources |-> [d \in DestIDs(s) |-> << >>]]
  /\ posted = [s \in Sources |-> [d \in DestIDs(s) |-> << >>]]
  /\ metricsPc = [s \in Sources |-> "wait"]
  /\ current = [s \in Sources |-> NoPoint]
  /\ lastUpdateSet = [s \in Sources |-> FALSE]
  /\ buffer = [s \in Sources |-> NewCircularBuffer]
  /\ metrics = [s \in Sources |-> NewMetrics(s)]
  /\ syncIdx = [s \in Sources |-> 0]
  /\ syncEvents = [s \in Sources |-> << >>]
  /\ syncCall = [s \in Sources |-> NoCall]
  /\ waited = [s \in Sources |-> 0]
  /\ pendingAge = [s \in Sources |-> 0]
  /\ engine = [built |-> FALSE, rules |-> << >>]
  /\ filterIn = << >>
  /\ filterOut = << >>
  /\ now = 0
  /\ aggPending = << >>
  /\ aggParsed = 0
  /\ groups = EmptyMap
  /\ aggOut = {}
  /\ handler = [open |-> FALSE, eventCount |-> 0, files |-> << >>]
  /\ storageState = [ok |-> FALSE, eventCount |-> 0, files |-> << >>]
  /\ ring = [buffer |-> [i \in 0..(RingSize - 1) |-> [Timestamp |-> 0, LogCount |-> 0, DataSize |-> 0]],
             head |-> 0, count |-> 0]
  /\ added = << >>
  /\ averages = [hourly |-> 0, daily |-> 0]
  /\ parseIn = << >>
  /\ parseOut = << >>
  /\ lpQueue = << >>
  /\ callPc = [s \in Sources |-> "idle"]
  /\ callRef = [s \in Sources |-> 0]
  /\ running = [s \in Sources |-> FALSE]
  /\ listenerObjs = << >>
  /\ registry = 0
  /\ routing = << >>
  /\ udpBuffer = [i \in 1..MaxDatagram |-> "0"]
  /\ sliceQueue = << >>
  /\ sliceBatch = << >>
  /\ sliceEvents = << >>
  /\ fileObjs = << >>
  /\ fileState = [k \in StoragePaths |-> 0]
  /\ writerPc = [w \in StorageWriters |-> "idle"]
  /\ writerFile = [w \in StorageWriters |-> 0]
  /\ writerLeft = [w \in StorageWriters |-> 0]
  /\ closedWrite = FALSE
  /\ fsNow = 0
  /\ disk = [w \in StorageSinks |-> EmptyMap]
  /\ fsState = [w \in StorageSinks |-> [open |-> FALSE, name |-> 0, eventCount |-> 0]]
  /\ createdNames = [w \in StorageSinks |-> << >>]
  /\ truncated = [w \in StorageSinks |-> FALSE]
  /\ rcvNow = 0
  /\ lastMessageTime = [set |-> FALSE, t |-> 0]
  /\ lastArrival = [any |-> FALSE, t |-> 0]
  /\ tickPc = "wait"
  /\ tickNow = 0
  /\ isReceiving = FALSE
  /\ lpReceiving = [called |-> FALSE, at |-> 0, value |-> FALSE]
  /\ liveEPS = 0
  /\ liveDest = [d \in EnabledDestIDs("A") |-> 0]
  /\ snapTickPc = "wait"
  /\ snapTodo = {}
  /\ snapshot = [taken |-> FALSE, RealTimeEPS |-> 0, DestMetrics |-> "s.metrics.DestMetrics"]
  /\ snapTaken = [RealTimeEPS |-> 0, DestMetrics |-> [d \in EnabledDestIDs("A") |-> 0]]
  /\ readerPc = "idle"
  /\ hDestinations = EmptyMap
  /\ hInvoked = [called |-> FALSE, sourceName |-> << >>, processors |-> {}]
  /\ qBatches = << >>
  /\ qDepth = 0
  /\ qPc = [c \in 1..MaxCallers |-> "idle"]
  /\ qReturn = [c \in 1..MaxCallers |-> "none"]
  /\ lpLast = [called |-> FALSE, data |-> "", event |-> [Event |-> [kind |-> "nil", text |-> ""], Source |-> ""]]

(***************************************************************************)
(* SharedListener                                                          *)
(***************************************************************************)
\* NewSharedListener followed by a successful Start: the socket is bound
NewSharedListener == [sources |-> EmptyMap, isRunning |-> TRUE]

\* AddSource: sl.sources[sourceKey] = source
AddSource(L, s) == [L EXCEPT !.sources = MapPut(L.sources, SourceKey(s), s)]

\* RemoveSource: delete(sl.sources, sourceKey)
RemoveSource(L, s) == [L EXCEPT !.sources = MapDelete(L.sources, SourceKey(s))]

GetSourceCount(L) == Cardinality(DOMAIN L.sources)

\* the sources registered on the listener
Registered(L) == {L.sources[ip] : ip \in DOMAIN L.sources}

\* a routeMessage that asks the wildcard source first
RouteTargetWildcardFirst(L, ip) ==
  IF "0.0.0.0" \in DOMAIN L.sources /\ isRunning[L.sources["0.0.0.0"]]
    THEN L.sources["0.0.0.0"]
    ELSE IF ip \in DOMAIN L.sources /\ isRunning[L.sources[ip]]
           THEN L.sources[ip]
           ELSE None

\* a routeMessage without the wildcard fallback
RouteTargetExactOnly(L, ip) ==
  IF ip \in DOMAIN L.sources /\ isRunning[L.sources[ip]]
    THEN L.sources[ip]
    ELSE None

\* routeMessage's choice: exact IP match first, else the wildcard source
RouteTarget(L, ip) ==
  IF ip \in DOMAIN L.sources /\ isRunning[L.sources[ip]]
    THEN L.sources[ip]
    ELSE IF "0.0.0.0" \in DOMAIN L.sources /\ isRunning[L.sources["0.0.0.0"]]
           THEN L.sources["0.0.0.0"]
           ELSE None

(***************************************************************************)
(* Application: the registry of shared listeners.                          *)
(***************************************************************************)
\* a GetSharedListener that records the new listener whether or not its
\* socket was bound
GetSharedListenerUnbound(reg, key, bound) ==
  IF key \in DOMAIN reg THEN reg ELSE MapPut(reg, key, [sources |-> EmptyMap, isRunning |-> bound])

\* GetSharedListener: the registered listener, or a new one that bound its
\* socket (bound = FALSE: net.Listen / net.ListenUDP failed, nothing recorded)
GetSharedListener(reg, key, bound) ==
  IF key \in DOMAIN reg THEN reg
  ELSE IF bound THEN MapPut(reg, key, NewSharedListener)
  ELSE reg

\* RemoveSharedListener: sharedListener.Stop() and delete from the registry
RemoveSharedListener(reg, key) ==
  IF key \in DOMAIN reg THEN MapDelete(reg, key) ELSE reg

\* the sockets of the process after the registry changed from reg to reg2:
\* a listener added was bound by SharedListener.Start, one removed was
\* closed by SharedListener.Stop
SocketsAfter(socks, reg, reg2) ==
  [k \in Keys |->
     socks[k] + (IF k \in DOMAIN reg2 /\ k \notin DOMAIN reg THEN 1 ELSE 0)
              - (IF k \in DOMAIN reg /\ k \notin DOMAIN reg2 THEN 1 ELSE 0)]

\* the read loop of a listener runs while its listener is registered
ReadLoopAfter(pcs, reg2) ==
  [k \in Keys |->
     IF k \notin DOMAIN reg2 THEN "closed"
     ELSE IF pcs[k] = "closed" THEN "read" ELSE pcs[k]]

\* a read loop blocked inside routeMessage holds sourceMutex for reading, so
\* AddSource and RemoveSource on that listener wait for it
SourceMutexFree(key) == listenPc[key] # "send"

\* s.mutex is free: calculateMetrics holds it from its load to its reset
MutexFree(s) == metricsPc[s] = "wait"

(***************************************************************************)
(* SyslogSource.Start and SyslogSource.Stop                                *)
(***************************************************************************)
Start(s) ==
  /\ MutexFree(s)
  /\ SourceMutexFree(KeyOf(s))
  /\ \E bound \in BOOLEAN :
       LET key == KeyOf(s)
           reg1 == GetSharedListener(sharedListeners, key, bound)
       IN IF isRunning[s]
            THEN \* "source is already running"
                 /\ lastOp' = [op |-> "Start", src |-> s, err |-> TRUE, bindFailed |-> FALSE]
                 /\ UNCHANGED << isRunning, sharedListeners, openSockets, listenPc, workerStarted >>
            ELSE IF key \notin DOMAIN reg1
              THEN \* "failed to get shared listener"
                   /\ lastOp' = [op |-> "Start", src |-> s, err |-> TRUE,
                                 bindFailed |-> key \notin DOMAIN sharedListeners /\ ~bound]
                   /\ UNCHANGED << isRunning, sharedListeners, openSockets, listenPc, workerStarted >>
              ELSE LET reg2 == [reg1 EXCEPT ![key] = AddSource(reg1[key], s)]
                   IN /\ sharedListeners' = reg2
                      /\ openSockets' = SocketsAfter(openSockets, sharedListeners, reg2)
                      /\ listenPc' = ReadLoopAfter(listenPc, reg2)
                      /\ isRunning' = [isRunning EXCEPT ![s] = TRUE]
                      /\ workerStarted' = [workerStarted EXCEPT ![s] = TRUE]
                      /\ lastOp' = [op |-> "Start", src |-> s, err |-> FALSE,
                                    bindFailed |-> key \notin DOMAIN sharedListeners /\ ~bound]
  /\ UNCHANGED << pendingSend, nextId, sourceVars, workerPc, batch, destVars >>
  /\ UNCHANGED << metricsVars, syncVars, timerVars, compVars >>

\* the registry after Stop of a running source: RemoveSource, and
\* RemoveSharedListener when GetSourceCount() == 0
StopRegistry(reg, s, bound) ==
  LET key == KeyOf(s)
      reg1 == GetSharedListener(reg, key, bound)
  IN IF key \notin DOMAIN reg1 THEN reg1
     ELSE LET L == RemoveSource(reg1[key], s)
              reg2 == [reg1 EXCEPT ![key] = L]
          IN IF GetSourceCount(L) = 0
               THEN RemoveSharedListener(reg2, key)
               ELSE reg2

Stop(s) ==
  /\ MutexFree(s)
  /\ SourceMutexFree(KeyOf(s))
  /\ \E bound \in BOOLEAN :
       IF ~isRunning[s]
         THEN /\ lastOp' = [op |-> "Stop", src |-> s, wasRunning |-> FALSE]
              /\ UNCHANGED << isRunning, sharedListeners, openSockets, listenPc >>
         ELSE LET reg2 == StopRegistry(sharedListeners, s, bound)
              IN /\ isRunning' = [isRunning EXCEPT ![s] = FALSE]
                 /\ sharedListeners' = reg2
                 /\ openSockets' = SocketsAfter(openSockets, sharedListeners, reg2)
                 /\ listenPc' = ReadLoopAfter(listenPc, reg2)
                 /\ lastOp' = [op |-> "Stop", src |-> s, wasRunning |-> TRUE]
  /\ UNCHANGED << pendingSend, nextId, sourceVars, workerVars, destVars >>
  /\ UNCHANGED << metricsVars, syncVars, timerVars, compVars >>

(***************************************************************************)
(* SyslogSource.processMessage, reached from SharedListener.routeMessage   *)
(***************************************************************************)
Msg(id, data) == [id |-> id, data |-> data]

\* the send s.queue <- data can proceed
QueueHasRoom(s) == Len(queue[s]) < QueueCap

\* processMessage up to the send: the counters
CountMessage(s, m) ==
  /\ eventCount' = [eventCount EXCEPT ![s] = @ + 1]
  /\ dataSize' = [dataSize EXCEPT ![s] = @ + PayloadSize(m.data)]
  /\ received' = [received EXCEPT ![s] = @ + 1]

\* does processMessage send the message to the ingestion queue
Enqueues(s) == ~Config[s].SimulationMode

\* one datagram or line read from the socket of listener key, from peer ip
RouteMessage(key, ip, data) ==
  /\ listenPc[key] = "read"
  /\ nextId <= MaxMsgs
  /\ LET m == Msg(nextId, data)
         t == RouteTarget(sharedListeners[key], ip)
     IN /\ nextId' = nextId + 1
        /\ lastOp' = [op |-> "route", key |-> key, ip |-> ip, target |-> t, msg |-> m]
        /\ IF t = None
             THEN UNCHANGED << listenPc, pendingSend, sourceVars >>
             ELSE /\ CountMessage(t, m)
                  /\ IF ~Enqueues(t)
                       THEN UNCHANGED << listenPc, pendingSend, processedCount, queue >>
                       ELSE IF QueueHasRoom(t)
                         THEN /\ queue' = [queue EXCEPT ![t] = Append(@, m)]
                              /\ processedCount' = [processedCount EXCEPT ![t] = @ + 1]
                              /\ UNCHANGED << listenPc, pendingSend >>
                         ELSE \* the send blocks: the read loop waits for room
                              /\ listenPc' = [listenPc EXCEPT ![key] = "send"]
                              /\ pendingSend' = [pendingSend EXCEPT ![key] = [src |-> t, msg |-> m]]
                              /\ UNCHANGED << processedCount, queue >>
  /\ UNCHANGED << isRunning, sharedListeners, openSockets, workerVars, destVars >>
  /\ UNCHANGED << metricsVars, syncVars, timerVars, compVars >>

\* a blocked send completes once the queue has room
SendCompletes(key) ==
  /\ listenPc[key] = "send"
  /\ LET t == pendingSend[key].src
     IN /\ QueueHasRoom(t)
        /\ queue' = [queue EXCEPT ![t] = Append(@, pendingSend[key].msg)]
        /\ processedCount' = [processedCount EXCEPT ![t] = @ + 1]
  /\ listenPc' = [listenPc EXCEPT ![key] = "read"]
  /\ pendingSend' = [pendingSend EXCEPT ![key] = None]
  /\ UNCHANGED << isRunning, sharedListeners, openSockets, nextId, lastOp, eventCount, dataSize,
                  received, workerVars, destVars >>
  /\ UNCHANGED << metricsVars, syncVars, timerVars, compVars >>

(***************************************************************************)
(* Events and destinations                                                 *)
(***************************************************************************)
\* the event processBatch builds from one queued message: the payload sits
\* depth levels of {"time", "event", "source", "simulation_mode"} deep
NewEvent(s, m) ==
  [id |-> m.id, data |-> m.data, depth |-> 1,
   source |-> Config[s].Name, simulation_mode |-> Config[s].SimulationMode]

\* the event processDestinationBatch builds from one destination-queue item:
\* the item is the JSON text of an event, json.Valid holds, and the item
\* becomes the "event" field of a new event
WrapEvent(s, e) ==
  [e EXCEPT !.depth = @ + 1,
            !.source = Config[s].Name,
            !.simulation_mode = Config[s].SimulationMode]

\* the events processBatch builds from batch b, in order
NewEvents(s, b) == [i \in 1..Len(b) |-> NewEvent(s, b[i])]

\* the events processDestinationBatch builds from batch b, in order
WrapEvents(s, b) == [i \in 1..Len(b) |-> WrapEvent(s, b[i])]

\* the nil *models.Destination
NilDest == [ID |-> "", Type |-> "", Enabled |-> FALSE, Configured |-> FALSE]

\* getDestinationByID: the first destination with the ID, or nil
GetDestinationByID(s, destID) ==
  LET ds == Config[s].Destinations
      hits == {i \in 1..Len(ds) : ds[i].ID = destID}
  IN IF hits = {} THEN NilDest
     ELSE ds[CHOOSE i \in hits : \A j \in hits : i <= j]

\* a push that puts the event at the head of the destination queue
OfferAtFront(q, e) == IF Len(q) < DestQueueCap THEN << e >> \o q ELSE q

\* select { case queue <- eventBytes: ... default: } on one destination queue
Offer(q, e) == IF Len(q) < DestQueueCap THEN Append(q, e) ELSE q

\* the inner loop of processBatch over the events, on one destination queue
RECURSIVE PushAll(_, _)
PushAll(q, events) ==
  IF events = << >> THEN q
  ELSE PushAll(Offer(q, Head(events)), Tail(events))

\* a plain send queue <- eventBytes: the batch worker waits when the events
\* do not fit
PushWaitsWhenFull(q, events) == Len(q) + Len(events) > DestQueueCap

\* does the batch worker wait on destination queue q while pushing events:
\* the select has a default case, so it never does
PushWaits(q, events) == FALSE

\* the destinations processBatch distributes to
FanoutDests(s) ==
  {d \in DOMAIN destQueues[s] :
     /\ GetDestinationByID(s, d) # NilDest
     /\ GetDestinationByID(s, d).Enabled}

\* SyslogSource.processBatch on batch b
ProcessBatch(s, b) ==
  LET events == NewEvents(s, b)
      pushed == [d \in DOMAIN destQueues[s] |->
                   IF d \in FanoutDests(s) THEN PushAll(destQueues[s][d], events)
                   ELSE destQueues[s][d]]
  IN /\ destQueues' = [destQueues EXCEPT ![s] = pushed]
     /\ destQueueLength' =
          [destQueueLength EXCEPT ![s] =
             [d \in DOMAIN @ |-> @[d] + Len(pushed[d]) - Len(destQueues[s][d])]]
     /\ workerPc' =
          [workerPc EXCEPT ![s] =
             IF \E d \in FanoutDests(s) : PushWaits(destQueues[s][d], events)
               THEN "blocked" ELSE "select"]

\* the batch worker of startWorker is at its select (a source in simulation
\* mode sleeps and never reaches it)
WorkerAtSelect(s) ==
  /\ workerStarted[s]
  /\ workerPc[s] = "select"
  /\ ~Config[s].SimulationMode

\* case logData := <-s.queue
WorkerRecv(s) ==
  /\ WorkerAtSelect(s)
  /\ queue[s] # << >>
  /\ queue' = [queue EXCEPT ![s] = Tail(@)]
  /\ LET b == Append(batch[s], Head(queue[s]))
     IN IF Len(b) >= BatchSize
          THEN /\ ProcessBatch(s, b)
               /\ batch' = [batch EXCEPT ![s] = << >>]
          ELSE /\ batch' = [batch EXCEPT ![s] = b]
               /\ UNCHANGED << workerPc, destQueues, destQueueLength >>
  /\ waited' = [waited EXCEPT ![s] = 0]
  /\ pendingAge' = [pendingAge EXCEPT ![s] = IF batch'[s] = << >> \/ batch[s] = << >> THEN 0 ELSE @]
  /\ UNCHANGED << listenerVars, eventCount, dataSize, processedCount, received, workerStarted,
                  destProcessed, destBatch, destCall, hecFailures, written, posted >>
  /\ UNCHANGED << metricsVars, syncVars, compVars >>

\* case <-time.After(2 * time.Second), with a batch pending
WorkerTimeout(s) ==
  /\ WorkerAtSelect(s)
  /\ queue[s] = << >>
  /\ batch[s] # << >>
  /\ ProcessBatch(s, batch[s])
  /\ batch' = [batch EXCEPT ![s] = << >>]
  /\ waited' = [waited EXCEPT ![s] = 0]
  /\ pendingAge' = [pendingAge EXCEPT ![s] = 0]
  /\ UNCHANGED << listenerVars, sourceVars, workerStarted,
                  destProcessed, destBatch, destCall, hecFailures, written, posted >>
  /\ UNCHANGED << metricsVars, syncVars, compVars >>

(***************************************************************************)
(* destinations.PostBatchToHEC as a call in progress                       *)
(***************************************************************************)
\* seconds of time.Sleep between two attempts
RetrySleep == 2

HECResponses == {"200", "202", "503", "error"}

\* err == nil && (resp.StatusCode == 200 || resp.StatusCode == 202)
Accepted(resp) == resp \in {"200", "202"}

\* the call starts: the payload is fixed and the first request goes out
HECBegin(events) == [pc |-> "post", events |-> events, elapsed |-> 0]

\* the call after the reply to one request
HECReply(call, resp) ==
  IF Accepted(resp)
    THEN [call EXCEPT !.pc = "done"]
    ELSE [call EXCEPT !.pc = "sleep", !.elapsed = 0]

\* a loop without the sleep
SleepOverAtOnce(call) == TRUE

\* time.Sleep(2 * time.Second) is over
SleepOver(call) == call.elapsed >= RetrySleep

\* one second passes in time.Sleep
HECTick(call) == [call EXCEPT !.elapsed = @ + 1]

\* the loop goes round: the next request, with the same payload
HECRetry(call) == [call EXCEPT !.pc = "post"]

(***************************************************************************)
(* The destination workers: startDestinationWorker, processDestinationBatch*)
(***************************************************************************)
DestWorkerAtSelect(s, d) ==
  /\ workerStarted[s]
  /\ GetDestinationByID(s, d) # NilDest
  /\ destCall[s][d].pc = "idle"

\* the metrics update after a nil error
DestDelivered(s, d, n) ==
  /\ destProcessed' = [destProcessed EXCEPT ![s][d] = @ + n]
  /\ destQueueLength' = [destQueueLength EXCEPT ![s][d] = @ - n]

\* processDestinationBatch on batch b. A storage batch is written at once:
\* k events reach the file, and WriteBatchToStorage fails unless k is all of
\* them (os.Create or Encode failed). A HEC batch starts PostBatchToHEC.
\* With an empty Path, or an empty URL or APIKey, the call returns nil at
\* once and nothing is written or posted.
ProcessDestinationBatch(s, d, b) ==
  LET events == WrapEvents(s, b)
      type == GetDestinationByID(s, d).Type
  IN IF ~GetDestinationByID(s, d).Configured
       THEN /\ DestDelivered(s, d, Len(events))
            /\ UNCHANGED << written, destCall >>
     ELSE IF type = "storage"
       THEN \E k \in 0..Len(events) :
              /\ written' = [written EXCEPT ![s][d] = @ \o SubSeq(events, 1, k)]
              /\ IF k = Len(events)
                   THEN DestDelivered(s, d, Len(events))
                   ELSE UNCHANGED << destProcessed, destQueueLength >>
              /\ UNCHANGED destCall
       ELSE /\ destCall' = [destCall EXCEPT ![s][d] = HECBegin(events)]
            /\ UNCHANGED << written, destProcessed, destQueueLength >>

\* case logData := <-queue
DestRecv(s, d) ==
  /\ DestWorkerAtSelect(s, d)
  /\ destQueues[s][d] # << >>
  /\ destQueues' = [destQueues EXCEPT ![s][d] = Tail(@)]
  /\ LET b == Append(destBatch[s][d], Head(destQueues[s][d]))
     IN IF Len(b) >= BatchSize
          THEN /\ ProcessDestinationBatch(s, d, b)
               /\ destBatch' = [destBatch EXCEPT ![s][d] = << >>]
          ELSE /\ destBatch' = [destBatch EXCEPT ![s][d] = b]
               /\ UNCHANGED << destCall, written, destProcessed, destQueueLength >>
  /\ UNCHANGED << listenerVars, sourceVars, workerVars, hecFailures, posted >>
  /\ UNCHANGED << metricsVars, syncVars, timerVars, compVars >>

\* case <-time.After(2 * time.Second), with a batch pending
DestTimeout(s, d) ==
  /\ DestWorkerAtSelect(s, d)
  /\ destQueues[s][d] = << >>
  /\ destBatch[s][d] # << >>
  /\ ProcessDestinationBatch(s, d, destBatch[s][d])
  /\ destBatch' = [destBatch EXCEPT ![s][d] = << >>]
  /\ UNCHANGED << listenerVars, sourceVars, workerVars, destQueues, hecFailures, posted >>
  /\ UNCHANGED << metricsVars, syncVars, timerVars, compVars >>

\* the endpoint replies to the request of a destination worker
DestHECReply(s, d, resp) ==
  /\ destCall[s][d].pc = "post"
  /\ Accepted(resp) \/ hecFailures[s][d] < MaxFailures
  /\ LET call == HECReply(destCall[s][d], resp)
     IN IF call.pc = "done"
          THEN \* PostBatchToHEC returned nil
               /\ posted' = [posted EXCEPT ![s][d] = @ \o call.events]
               /\ DestDelivered(s, d, Len(call.events))
               /\ destCall' = [destCall EXCEPT ![s][d] = NoCall]
               /\ UNCHANGED hecFailures
          ELSE /\ destCall' = [destCall EXCEPT ![s][d] = call]
               /\ hecFailures' = [hecFailures EXCEPT ![s][d] = @ + 1]
               /\ UNCHANGED << posted, destProcessed, destQueueLength >>
  /\ UNCHANGED << listenerVars, sourceVars, workerVars, destQueues, destBatch, written >>
  /\ UNCHANGED << metricsVars, syncVars, timerVars, compVars >>

\* a second passes while a destination worker sleeps between attempts
DestHECTick(s, d) ==
  /\ destCall[s][d].pc = "sleep"
  /\ ~SleepOver(destCall[s][d])
  /\ destCall' = [destCall EXCEPT ![s][d] = HECTick(@)]
  /\ UNCHANGED << listenerVars, sourceVars, workerVars, destQueues, destQueueLength,
                  destProcessed, destBatch, hecFailures, written, posted >>
  /\ UNCHANGED << metricsVars, syncVars, timerVars, compVars >>

\* the sleep is over and the destination worker posts again
DestHECRetry(s, d) ==
  /\ destCall[s][d].pc = "sleep"
  /\ SleepOver(destCall[s][d])
  /\ destCall' = [destCall EXCEPT ![s][d] = HECRetry(@)]
  /\ UNCHANGED << listenerVars, sourceVars, workerVars, destQueues, destQueueLength,
                  destProcessed, destBatch, hecFailures, written, posted >>
  /\ UNCHANGED << metricsVars, syncVars, timerVars, compVars >>

(***************************************************************************)
(* The pipeline of the sources on UDP 514: A delivers, W simulates.        *)
(***************************************************************************)
PipelineSources == {"A", "W"}

NextPipeline ==
  \/ \E s \in PipelineSources : Start(s)
  \/ \E ip \in PeerIPs : RouteMessage(KeyOf("A"), ip, "a")
  \/ SendCompletes(KeyOf("A"))
  \/ \E s \in PipelineSources : WorkerRecv(s)
  \/ \E s \in PipelineSources : WorkerTimeout(s)
  \/ \E s \in PipelineSources : \E d \in EnabledDestIDs(s) : DestRecv(s, d)
  \/ \E s \in PipelineSources : \E d \in EnabledDestIDs(s) : DestTimeout(s, d)
  \/ \E s \in PipelineSources : \E d \in EnabledDestIDs(s), resp \in HECResponses :
       DestHECReply(s, d, resp)
  \/ \E s \in PipelineSources : \E d \in EnabledDestIDs(s) : DestHECTick(s, d)
  \/ \E s \in PipelineSources : \E d \in EnabledDestIDs(s) : DestHECRetry(s, d)

SpecPipeline == Init /\ [][NextPipeline]_vars

(***************************************************************************)
(* The SyslogSource of src/syslog/source.go: an unbuffered ingestion        *)
(* channel, and a batch worker that delivers to the destinations itself.    *)
(***************************************************************************)
\* routeMessage, then processMessage of source.go: no counters; outside
\* simulation mode the send on the unbuffered channel waits for the worker
SyncRouteMessage(key, ip, data) ==
  /\ listenPc[key] = "read"
  /\ nextId <= MaxMsgs
  /\ LET m == Msg(nextId, data)
         t == RouteTarget(sharedListeners[key], ip)
     IN /\ nextId' = nextId + 1
        /\ lastOp' = [op |-> "route", key |-> key, ip |-> ip, target |-> t, msg |-> m]
        /\ IF t = None \/ ~Enqueues(t)
             THEN UNCHANGED << listenPc, pendingSend >>
             ELSE /\ listenPc' = [listenPc EXCEPT ![key] = "send"]
                  /\ pendingSend' = [pendingSend EXCEPT ![key] = [src |-> t, msg |-> m]]
  /\ UNCHANGED << isRunning, sharedListeners, openSockets, sourceVars, workerVars, destVars,
                  metricsVars, syncVars, timerVars, compVars >>

\* the read loops waiting to send to source s
SendersTo(s) == {key \in Keys : listenPc[key] = "send" /\ pendingSend[key].src = s}

\* the destination processBatch handles after the one at index i, or the
\* return to the select
SyncAdvance(s, i) ==
  IF i >= Len(Config[s].Destinations)
    THEN /\ syncIdx' = [syncIdx EXCEPT ![s] = 0]
         /\ syncEvents' = [syncEvents EXCEPT ![s] = << >>]
         /\ workerPc' = [workerPc EXCEPT ![s] = "select"]
    ELSE /\ syncIdx' = [syncIdx EXCEPT ![s] = i + 1]
         /\ workerPc' = [workerPc EXCEPT ![s] = "deliver"]
         /\ UNCHANGED syncEvents

\* processBatch of source.go starts on batch b: the events are built
SyncProcessBatch(s, b) ==
  IF Config[s].Destinations = << >>
    THEN UNCHANGED << workerPc, syncIdx, syncEvents >>
    ELSE /\ workerPc' = [workerPc EXCEPT ![s] = "deliver"]
         /\ syncIdx' = [syncIdx EXCEPT ![s] = 1]
         /\ syncEvents' = [syncEvents EXCEPT ![s] = NewEvents(s, b)]

\* case logData := <-s.queue: the worker meets a waiting sender
SyncWorkerRecv(s) ==
  /\ WorkerAtSelect(s)
  /\ \E key \in SendersTo(s) :
       /\ listenPc' = [listenPc EXCEPT ![key] = "read"]
       /\ pendingSend' = [pendingSend EXCEPT ![key] = None]
       /\ processedCount' = [processedCount EXCEPT ![s] = @ + 1]
       /\ LET b == Append(batch[s], pendingSend[key].msg)
          IN IF Len(b) >= BatchSize
               THEN /\ SyncProcessBatch(s, b)
                    /\ batch' = [batch EXCEPT ![s] = << >>]
               ELSE /\ batch' = [batch EXCEPT ![s] = b]
                    /\ UNCHANGED << workerPc, syncIdx, syncEvents >>
  /\ UNCHANGED << isRunning, sharedListeners, openSockets, nextId, lastOp, eventCount, dataSize,
                  queue, received, workerStarted, destVars, metricsVars, syncCall, timerVars, compVars >>

\* case <-time.After(2 * time.Second), with a batch pending and no sender
SyncWorkerTimeout(s) ==
  /\ WorkerAtSelect(s)
  /\ SendersTo(s) = {}
  /\ batch[s] # << >>
  /\ SyncProcessBatch(s, batch[s])
  /\ batch' = [batch EXCEPT ![s] = << >>]
  /\ UNCHANGED << listenerVars, sourceVars, workerStarted, destVars, metricsVars, syncCall, timerVars, compVars >>

\* processBatch of source.go at one destination: a disabled one is skipped,
\* a storage one is written (the error is ignored), a HEC one is posted
SyncDeliver(s) ==
  /\ workerPc[s] = "deliver"
  /\ syncCall[s].pc = "idle"
  /\ LET dest == Config[s].Destinations[syncIdx[s]]
     IN IF ~dest.Enabled
          THEN /\ SyncAdvance(s, syncIdx[s])
               /\ UNCHANGED << written, syncCall >>
          ELSE IF dest.Type = "storage"
            THEN /\ \E k \in 0..Len(syncEvents[s]) :
                      written' = [written EXCEPT ![s][dest.ID] = @ \o SubSeq(syncEvents[s], 1, k)]
                 /\ SyncAdvance(s, syncIdx[s])
                 /\ UNCHANGED syncCall
            ELSE /\ syncCall' = [syncCall EXCEPT ![s] = HECBegin(syncEvents[s])]
                 /\ UNCHANGED << written, workerPc, syncIdx, syncEvents >>
  /\ UNCHANGED << listenerVars, sourceVars, workerStarted, batch, destQueues, destQueueLength,
                  destProcessed, destBatch, destCall, hecFailures, posted, metricsVars, timerVars, compVars >>

\* the endpoint replies to the request of the batch worker
SyncHECReply(s, resp) ==
  /\ syncCall[s].pc = "post"
  /\ LET d == Config[s].Destinations[syncIdx[s]].ID
         call == HECReply(syncCall[s], resp)
     IN /\ Accepted(resp) \/ hecFailures[s][d] < MaxFailures
        /\ IF call.pc = "done"
             THEN /\ posted' = [posted EXCEPT ![s][d] = @ \o call.events]
                  /\ syncCall' = [syncCall EXCEPT ![s] = NoCall]
                  /\ SyncAdvance(s, syncIdx[s])
                  /\ UNCHANGED hecFailures
             ELSE /\ syncCall' = [syncCall EXCEPT ![s] = call]
                  /\ hecFailures' = [hecFailures EXCEPT ![s][d] = @ + 1]
                  /\ UNCHANGED << posted, workerPc, syncIdx, syncEvents >>
  /\ UNCHANGED << listenerVars, sourceVars, workerStarted, batch, destQueues, destQueueLength,
                  destProcessed, destBatch, destCall, written, metricsVars, timerVars, compVars >>

\* a second passes while the batch worker sleeps between attempts
SyncHECTick(s) ==
  /\ syncCall[s].pc = "sleep"
  /\ ~SleepOver(syncCall[s])
  /\ syncCall' = [syncCall EXCEPT ![s] = HECTick(@)]
  /\ UNCHANGED << listenerVars, sourceVars, workerVars, destVars, metricsVars, syncIdx, syncEvents, timerVars, compVars >>

\* the sleep is over and the batch worker posts again
SyncHECRetry(s) ==
  /\ syncCall[s].pc = "sleep"
  /\ SleepOver(syncCall[s])
  /\ syncCall' = [syncCall EXCEPT ![s] = HECRetry(@)]
  /\ UNCHANGED << listenerVars, sourceVars, workerVars, destVars, metricsVars, syncIdx, syncEvents, timerVars, compVars >>

NextSync ==
  \/ \E s \in PipelineSources : Start(s)
  \/ \E ip \in PeerIPs : SyncRouteMessage(KeyOf("A"), ip, "a")
  \/ \E s \in PipelineSources : SyncWorkerRecv(s)
  \/ \E s \in PipelineSources : SyncWorkerTimeout(s)
  \/ \E s \in PipelineSources : SyncDeliver(s)
  \/ \E s \in PipelineSources, resp \in HECResponses : SyncHECReply(s, resp)
  \/ \E s \in PipelineSources : SyncHECTick(s)
  \/ \E s \in PipelineSources : SyncHECRetry(s)

SpecSync == Init /\ [][NextSync]_vars

(***************************************************************************)
(* Delivery on a short run of messages, with an endpoint that answers      *)
(* every request, a clock that advances and workers that keep running.     *)
(***************************************************************************)
NextDelivery ==
  \/ \E s \in PipelineSources : Start(s)
  \/ \E ip \in PeerIPs : nextId <= MaxRouted /\ RouteMessage(KeyOf("A"), ip, "a")
  \/ \E s \in PipelineSources : WorkerRecv(s)
  \/ \E s \in PipelineSources : WorkerTimeout(s)
  \/ \E s \in PipelineSources : \E d \in EnabledDestIDs(s) : DestRecv(s, d)
  \/ \E s \in PipelineSources : \E d \in EnabledDestIDs(s) : DestTimeout(s, d)
  \/ \E s \in PipelineSources : \E d \in EnabledDestIDs(s), resp \in HECResponses :
       DestHECReply(s, d, resp)
  \/ \E s \in PipelineSources : \E d \in EnabledDestIDs(s) : DestHECTick(s, d)
  \/ \E s \in PipelineSources : \E d \in EnabledDestIDs(s) : DestHECRetry(s, d)

\* the http.Client has a timeout, so every request gets a reply or an error;
\* time.Sleep returns; a worker goroutine is never stopped
FairDelivery ==
  \A s \in PipelineSources : \A d \in EnabledDestIDs(s) :
    /\ WF_vars(\E resp \in HECResponses : DestHECReply(s, d, resp))
    /\ WF_vars(DestHECTick(s, d))
    /\ WF_vars(DestHECRetry(s, d))

SpecDelivery == Init /\ [][NextDelivery]_vars /\ FairDelivery

(***************************************************************************)
(* Metrics: updateMetrics calls calculateMetrics on every tick.            *)
(***************************************************************************)
\* an Add that leaves a full ring as it is
AddKeepsOldest(cb, point) ==
  IF cb.count < RingSize
    THEN [buffer |-> [cb.buffer EXCEPT ![cb.head] = point],
          head |-> (cb.head + 1) % RingSize, count |-> cb.count + 1]
    ELSE cb

\* CircularBuffer.Add
Add(cb, point) ==
  [buffer |-> [cb.buffer EXCEPT ![cb.head] = point],
   head |-> (cb.head + 1) % RingSize,
   count |-> IF cb.count < RingSize THEN cb.count + 1 ELSE cb.count]

\* the points GetAverage looks at: the count most recent ones
RecentPoints(cb) ==
  [i \in 0..(cb.count - 1) |-> cb.buffer[(cb.head - 1 - i + RingSize) % RingSize]]

RECURSIVE SumOver(_, _, _)
SumOver(f, n, field) ==
  IF n = 0 THEN 0 ELSE f[n - 1][field] + SumOver(f, n - 1, field)

\* CircularBuffer.GetAverage over a window that holds every stored point:
\* average log count (integer division), and total bytes with the number of
\* points they are divided by
GetAverage(cb) ==
  IF cb.count = 0 THEN [logs |-> 0, bytes |-> << 0, 0 >>]
  ELSE [logs |-> SumOver(RecentPoints(cb), cb.count, "LogCount") \div cb.count,
        bytes |-> << SumOver(RecentPoints(cb), cb.count, "DataSize"), cb.count >>]

\* calculateMetrics, first part: lock s.mutex, load the two counters
MetricsLoad(s) ==
  /\ workerStarted[s]
  /\ metricsPc[s] = "wait"
  /\ metricsPc' = [metricsPc EXCEPT ![s] = "calc"]
  /\ current' = [current EXCEPT ![s] = [LogCount |-> eventCount[s], DataSize |-> dataSize[s]]]
  /\ UNCHANGED << listenerVars, sourceVars, workerVars, destVars, lastUpdateSet, buffer, metrics,
                  syncVars, timerVars, compVars >>

\* calculateMetrics, second part: rates over the one-second tick, the data
\* point, the averages, the destination metrics, and the counters reset
MetricsStore(s) ==
  /\ metricsPc[s] = "calc"
  /\ LET cb == IF current[s].LogCount > 0 \/ current[s].DataSize > 0
                 THEN Add(buffer[s], current[s]) ELSE buffer[s]
         avg == GetAverage(cb)
     IN /\ buffer' = [buffer EXCEPT ![s] = cb]
        /\ metrics' =
             [metrics EXCEPT
                ![s].RealTimeEPS = IF lastUpdateSet[s] THEN current[s].LogCount ELSE @,
                ![s].RealTimeBytes = IF lastUpdateSet[s] THEN current[s].DataSize ELSE @,
                ![s].HourlyAvgLogs = avg.logs,
                ![s].HourlyAvgBytes = avg.bytes,
                ![s].DestMetrics =
                   [d \in DOMAIN destQueueLength[s] |->
                      [QueueLength |-> destQueueLength[s][d],
                       ProcessedCount |-> destProcessed[s][d]]]]
  /\ eventCount' = [eventCount EXCEPT ![s] = 0]
  /\ dataSize' = [dataSize EXCEPT ![s] = 0]
  /\ lastUpdateSet' = [lastUpdateSet EXCEPT ![s] = TRUE]
  /\ metricsPc' = [metricsPc EXCEPT ![s] = "wait"]
  /\ UNCHANGED << listenerVars, processedCount, queue, received, workerVars, destVars, current,
                  syncVars, timerVars, compVars >>

(***************************************************************************)
(* The pipeline with its metrics, on a short run of messages, up to the    *)
(* point where a HEC request has gone out.                                 *)
(***************************************************************************)
NextMetrics ==
  \/ \E s \in PipelineSources : Start(s)
  \/ \E ip \in PeerIPs : nextId <= MaxRouted /\ RouteMessage(KeyOf("A"), ip, "a")
  \/ \E s \in PipelineSources : WorkerRecv(s)
  \/ \E s \in PipelineSources : WorkerTimeout(s)
  \/ \E s \in PipelineSources : \E d \in EnabledDestIDs(s) : DestRecv(s, d)
  \/ \E s \in PipelineSources : \E d \in EnabledDestIDs(s) : DestTimeout(s, d)
  \/ \E s \in PipelineSources : MetricsLoad(s)
  \/ \E s \in PipelineSources : MetricsStore(s)

SpecMetrics == Init /\ [][NextMetrics]_vars

(***************************************************************************)
(* The listeners and the lifecycle of the sources.                         *)
(***************************************************************************)
NextListener ==
  \/ \E s \in Sources : Start(s)
  \/ \E s \in Sources : Stop(s)
  \/ \E key \in Keys, ip \in PeerIPs, data \in Payloads :
       nextId <= MaxRouted /\ RouteMessage(key, ip, data)

SpecListener == Init /\ [][NextListener]_vars

(***************************************************************************)
(* Fan-out to the destination queues                                       *)
(***************************************************************************)
\* the batch worker of s runs processBatch in this step, on batch FannedBatch(s)
FannedBatch(s) ==
  IF queue[s] # << >> /\ queue'[s] = Tail(queue[s])
    THEN Append(batch[s], Head(queue[s]))
    ELSE batch[s]

ProcessBatchStep(s) ==
  /\ batch'[s] = << >>
  /\ FannedBatch(s) # << >>
  /\ UNCHANGED << destBatch, destCall, written, posted >>

\* the events that reached the worker of destination d of s, delivered or not
ReachedDest(s, d) ==
  {e.id : e \in {destQueues[s][d][i] : i \in 1..Len(destQueues[s][d])}
            \cup {destBatch[s][d][i] : i \in 1..Len(destBatch[s][d])}
            \cup {destCall[s][d].events[i] : i \in 1..Len(destCall[s][d].events)}
            \cup {posted[s][d][i] : i \in 1..Len(posted[s][d])}
            \cup {written[s][d][i] : i \in 1..Len(written[s][d])}}

\* the same for a destination that may have no queue and no worker
ReachedDestOrNone(s, d) ==
  IF d \in DOMAIN destQueues[s] THEN ReachedDest(s, d)
  ELSE {e.id : e \in {posted[s][d][i] : i \in 1..Len(posted[s][d])}
                   \cup {written[s][d][i] : i \in 1..Len(written[s][d])}}

Min(a, b) == IF a < b THEN a ELSE b

\* C1: when processBatch fans a batch out, a destination queue that is full
\* loses the events meant for it and nothing else happens to it; the same
\* events are enqueued, in order, on every other enabled destination as far
\* as its queue has room. The batch worker does not wait: it is back at its
\* select with an empty batch, ready for the next one.
C1_FullDestQueueDropsOnlyItsOwn ==
  [][\A s \in PipelineSources :
       ProcessBatchStep(s) =>
         LET events == NewEvents(s, FannedBatch(s))
         IN /\ \A d \in EnabledDestIDs(s) :
                 LET room == DestQueueCap - Len(destQueues[s][d])
                 IN destQueues'[s][d] =
                      destQueues[s][d] \o SubSeq(events, 1, Min(room, Len(events)))
            /\ workerPc'[s] = "select"]_vars

\* processBatch has run while the queue of h was full: an event is in the
\* pipeline of f that never reached h, and the batch worker is at its select
C1_Witness ==
  /\ Len(destQueues["A"]["h"]) = DestQueueCap
  /\ ReachedDest("A", "f") \ ReachedDest("A", "h") # {}
  /\ batch["A"] = << >>
  /\ workerPc["A"] = "select"

(***************************************************************************)
(* A full ingestion queue                                                  *)
(***************************************************************************)
\* C2: processMessage never waits for room in the ingestion queue of a
\* source, so the read loop of a listener is never held inside routeMessage.
C2_ReadLoopNeverWaits ==
  \A key \in Keys : listenPc[key] # "send"

(***************************************************************************)
(* HEC delivery                                                            *)
(***************************************************************************)
\* the PostBatchToHEC call of destination d of s returns in this step
HECReturns(s, d) == destCall[s][d].pc # "idle" /\ destCall'[s][d].pc = "idle"

HECRetrying(s) ==
  \/ syncCall[s].pc = "sleep"
  \/ \E d \in DOMAIN destCall[s] : destCall[s][d].pc = "sleep"

\* C7: while a HEC destination of a source is failing and PostBatchToHEC is in
\* its retry loop, only that destination is held up: the batch worker of the
\* source is not in the loop but at its select, where it takes new messages
\* and hands batches to the other destinations.
C7_HECFailureIsolated ==
  \A s \in PipelineSources :
    HECRetrying(s) => workerPc[s] = "select"

(***************************************************************************)
(* Disabled destinations                                                   *)
(***************************************************************************)
DisabledDestIDs(s) == DestIDs(s) \ EnabledDestIDs(s)

\* how many times the event of message m sits in destination queue q
Pushed(q, m) == Cardinality({i \in 1..Len(q) : q[i].id = m.id})

\* C9: when processBatch runs, every event of the batch is pushed onto the
\* queue of each enabled destination at most once, and exactly once when the
\* queue has room at its turn; a disabled destination has no queue, and no
\* event of the batch reaches it.
C9_FanOutOncePerEnabledDest ==
  [][\A s \in PipelineSources :
       ProcessBatchStep(s) =>
         LET b == FannedBatch(s)
         IN /\ \A d \in EnabledDestIDs(s) : \A i \in 1..Len(b) :
                 /\ Pushed(destQueues[s][d], b[i]) = 0
                 /\ Pushed(destQueues'[s][d], b[i]) <= 1
                 /\ Len(destQueues[s][d]) + i <= DestQueueCap
                      => Pushed(destQueues'[s][d], b[i]) = 1
            /\ \A d \in DisabledDestIDs(s) :
                 /\ d \notin DOMAIN destQueues'[s]
                 /\ b[1].id \notin ReachedDestOrNone(s, d)']_vars

\* processBatch has pushed a batch of A onto the queues of both enabled
\* destinations, each event once, while A has the disabled destination x
C9_Witness ==
  /\ DisabledDestIDs("A") = {"x"}
  /\ batch["A"] = << >>
  /\ Len(destQueues["A"]["h"]) >= 2
  /\ destQueues["A"]["f"] = destQueues["A"]["h"]
  /\ \A i \in 1..Len(destQueues["A"]["h"]) :
       Pushed(destQueues["A"]["h"], destQueues["A"]["h"][i]) = 1

(***************************************************************************)
(* Simulation mode                                                         *)
(***************************************************************************)
\* nothing of source s is on its way to a destination or has reached one
NothingForwarded(s) ==
  /\ queue[s] = << >>
  /\ batch[s] = << >>
  /\ processedCount[s] = 0
  /\ \A d \in DOMAIN destQueues[s] :
       /\ destQueues[s][d] = << >>
       /\ destBatch[s][d] = << >>
       /\ destCall[s][d] = NoCall
  /\ \A d \in DestIDs(s) : written[s][d] = << >> /\ posted[s][d] = << >>

\* routeMessage hands message m to source s in this step
RoutedTo(s, m) ==
  /\ nextId' = nextId + 1
  /\ lastOp'.op = "route"
  /\ lastOp'.target = s
  /\ lastOp'.msg = m

\* the samples calculateMetrics has stored for s
SampleSum(s, field) == SumOver(RecentPoints(buffer[s]), buffer[s].count, field)

\* every message s received is in its counters or in one of its samples
CountedInMetrics(s) ==
  received[s] = eventCount[s] + SampleSum(s, "LogCount")

\* C10: every message a source in simulation mode receives is counted in its
\* event and byte counters and in its metrics (between two runs of
\* calculateMetrics, and before the ring wraps, the counters and the samples
\* add up to the messages received), and nothing of the source is enqueued,
\* written or posted.
C10_SimulationCountsOnly ==
  \A s \in Sources :
    Config[s].SimulationMode =>
      /\ NothingForwarded(s)
      /\ metricsPc[s] = "wait" => CountedInMetrics(s)

\* the part of C10 about destinations: nothing of a source in simulation mode
\* is enqueued, written or posted, and every message it receives goes through
\* its counters
C10_SimulationNeverForwards ==
  [][\A s \in Sources :
       Config[s].SimulationMode =>
         /\ NothingForwarded(s)'
         /\ \A id \in 1..MaxMsgs, data \in Payloads :
              RoutedTo(s, Msg(id, data)) =>
                /\ eventCount'[s] = eventCount[s] + 1
                /\ dataSize'[s] = dataSize[s] + PayloadSize(data)
                /\ received'[s] = received[s] + 1]_vars

\* the simulating source W received a message, calculateMetrics stored it as
\* a data point, and nothing of W is queued or delivered
C10_Witness ==
  /\ received["W"] > 0
  /\ buffer["W"].count > 0
  /\ RecentPoints(buffer["W"])[0].LogCount > 0
  /\ workerStarted["W"]
  /\ NothingForwarded("W")

(***************************************************************************)
(* Routing                                                                 *)
(***************************************************************************)
\* processMessage of source s ran on message m and on nothing else: the
\* counters of s advanced by m, and no other source changed
DeliveredTo(s, m) ==
  /\ eventCount' = [eventCount EXCEPT ![s] = @ + 1]
  /\ dataSize' = [dataSize EXCEPT ![s] = @ + PayloadSize(m.data)]
  /\ \A t \in Sources \ {s} :
       queue'[t] = queue[t] /\ processedCount'[t] = processedCount[t]
  /\ \/ queue'[s] = Append(queue[s], m)
     \/ /\ queue'[s] = queue[s]
        /\ Config[s].SimulationMode \/ \E k \in Keys : pendingSend'[k] = [src |-> s, msg |-> m]

\* C3: a message whose peer IP is the key of a registered source is delivered
\* to that source and to no other, also when a wildcard source is registered.
C3_ExactMatchWins ==
  [][\A key \in Keys, ip \in PeerIPs, data \in Payloads :
       (RouteMessage(key, ip, data) /\ ip \in DOMAIN sharedListeners[key].sources)
         => DeliveredTo(sharedListeners[key].sources[ip], Msg(nextId, data))]_vars

\* a message from an exact-IP peer was routed on a listener that also has a
\* wildcard registrant, and reached the exact-IP source
C3_Witness ==
  /\ lastOp.op = "route"
  /\ lastOp.key \in DOMAIN sharedListeners
  /\ LET L == sharedListeners[lastOp.key]
     IN /\ lastOp.ip \in DOMAIN L.sources
        /\ "0.0.0.0" \in DOMAIN L.sources
        /\ lastOp.target = L.sources[lastOp.ip]
        /\ eventCount[lastOp.target] = 1
        /\ eventCount[L.sources["0.0.0.0"]] = 0

\* C4: a message whose peer IP is the key of no registered source goes to the
\* wildcard registrant when there is one; otherwise it is dropped, no source
\* changes and the read loop goes on.
C4_WildcardOrDrop ==
  [][\A key \in Keys, ip \in PeerIPs, data \in Payloads :
       (RouteMessage(key, ip, data) /\ ip \notin DOMAIN sharedListeners[key].sources)
         => IF "0.0.0.0" \in DOMAIN sharedListeners[key].sources
              THEN DeliveredTo(sharedListeners[key].sources["0.0.0.0"], Msg(nextId, data))
              ELSE /\ UNCHANGED << sourceVars, isRunning, sharedListeners, openSockets >>
                   /\ listenPc'[key] = "read"
                   /\ lastOp'.target = None]_vars

\* a message from a peer with no exact registrant reached the wildcard source
C4_Witness ==
  /\ lastOp.op = "route"
  /\ lastOp.key \in DOMAIN sharedListeners
  /\ LET L == sharedListeners[lastOp.key]
     IN /\ lastOp.ip \notin DOMAIN L.sources
        /\ "0.0.0.0" \in DOMAIN L.sources
        /\ lastOp.target = L.sources["0.0.0.0"]
        /\ eventCount[lastOp.target] = 1

\* a message from a peer with no exact registrant was dropped: the listener
\* has registrants, none for that peer, and no wildcard
C4_DropReached ==
  /\ lastOp.op = "route"
  /\ lastOp.key \in DOMAIN sharedListeners
  /\ lastOp.target = None
  /\ GetSourceCount(sharedListeners[lastOp.key]) > 0

(***************************************************************************)
(* Listener sockets                                                        *)
(***************************************************************************)
\* the started sources of a (protocol, port)
StartedOn(key) == {s \in Sources : isRunning[s] /\ KeyOf(s) = key}

\* C5: at most one open listener socket per (protocol, port), and exactly one
\* whenever a started source uses that (protocol, port).
C5_OneSocketPerPort ==
  \A key \in Keys :
     /\ openSockets[key] <= 1
     /\ StartedOn(key) # {} => openSockets[key] = 1

\* the part of C5 the code keeps: at most one socket, and exactly one while
\* any source is registered on the listener
C5_OneSocketPerRegisteredPort ==
  \A key \in Keys :
     /\ openSockets[key] <= 1
     /\ openSockets[key] = 1 <=> key \in DOMAIN sharedListeners
     /\ key \in DOMAIN sharedListeners => GetSourceCount(sharedListeners[key]) > 0

\* the sources registered on the listener of (protocol, port) key
RegisteredOn(key) ==
  IF key \in DOMAIN sharedListeners THEN Registered(sharedListeners[key]) ELSE {}

\* C6: when Stop of a started source returns, the source is not registered on
\* its listener; if it was the last registrant the listener is closed and gone
\* from the registry, and if other sources are registered the listener stays
\* registered and open.
C6_StopReleasesListener ==
  [][\A s \in Sources :
       (Stop(s) /\ isRunning[s])
         => LET key == KeyOf(s)
                others == RegisteredOn(key) \ {s}
            IN /\ ~isRunning'[s]
               /\ key \in DOMAIN sharedListeners' => s \notin Registered(sharedListeners'[key])
               /\ others = {} => /\ key \notin DOMAIN sharedListeners'
                                 /\ openSockets'[key] = 0
               /\ others # {} => /\ key \in DOMAIN sharedListeners'
                                 /\ openSockets'[key] = 1]_vars

\* what the code keeps: Stop removes the registration under the key of the
\* source, whichever source holds it, and closes the listener when no
\* registration under another key is left
C6_StopReleasesByKey ==
  [][\A s \in Sources :
       (Stop(s) /\ isRunning[s] /\ KeyOf(s) \in DOMAIN sharedListeners)
         => LET key == KeyOf(s)
                L == sharedListeners[key]
                others == DOMAIN L.sources \ {SourceKey(s)}
            IN /\ ~isRunning'[s]
               /\ others = {} => /\ key \notin DOMAIN sharedListeners'
                                 /\ openSockets'[key] = 0
                                 /\ listenPc'[key] = "closed"
               /\ others # {} => /\ key \in DOMAIN sharedListeners'
                                 /\ DOMAIN sharedListeners'[key].sources = others
                                 /\ \A ip \in others : sharedListeners'[key].sources[ip] = L.sources[ip]
                                 /\ openSockets'[key] = 1
                                 /\ listenPc'[key] = listenPc[key]]_vars

\* Stop of a source that shared its listener returned: the listener is still
\* open for the source that remains
C6_Witness ==
  /\ lastOp.op = "Stop" /\ lastOp.wasRunning
  /\ KeyOf(lastOp.src) \in DOMAIN sharedListeners
  /\ openSockets[KeyOf(lastOp.src)] = 1
  /\ \E t \in Sources \ {lastOp.src} : t \in Registered(sharedListeners[KeyOf(lastOp.src)])

\* Stop of the last registrant returned: the socket is closed
C6_LastStopReached ==
  /\ lastOp.op = "Stop" /\ lastOp.wasRunning
  /\ KeyOf(lastOp.src) \notin DOMAIN sharedListeners
  /\ openSockets[KeyOf(lastOp.src)] = 0

(***************************************************************************)
(* Ordering                                                                *)
(***************************************************************************)
IdsOf(sq) == [i \in 1..Len(sq) |-> sq[i].id]

StrictlyIncreasing(ids) == \A i, j \in 1..Len(ids) : i < j => ids[i] < ids[j]

\* what the sink of destination d of s was handed, in the order of the calls
SinkOf(s, d) == written[s][d] \o posted[s][d]

\* the events of s on their way to the sink of d, the nearest to the sink first
InFlightTo(s, d) == destCall[s][d].events \o destBatch[s][d] \o destQueues[s][d]

\* C11: for each source and each destination, the events handed to the sink
\* are an order-preserving subsequence of the messages enqueued on the
\* ingestion queue of the source. Messages enter the ingestion queue in the
\* order of their ids; the ids grow along the whole path from the sink back to
\* the ingestion queue, so no event overtakes an earlier one.
C11_DeliveryKeepsSourceOrder ==
  \A s \in PipelineSources : \A d \in EnabledDestIDs(s) :
    /\ StrictlyIncreasing(IdsOf(SinkOf(s, d)) \o IdsOf(InFlightTo(s, d))
                            \o IdsOf(batch[s]) \o IdsOf(queue[s]))
    /\ \A i \in 1..Len(SinkOf(s, d)) : SinkOf(s, d)[i].id \in 1..(nextId - 1)

\* the file of f holds the first and the third message of A, in that order:
\* a proper subsequence of what A accepted
C11_Witness ==
  /\ IdsOf(written["A"]["f"]) = << 1, 3 >>
  /\ Len(posted["A"]["h"]) >= 2

(***************************************************************************)
(* The batch worker and its timer                                          *)
(***************************************************************************)
\* time.After(2 * time.Second) in the select of startWorker
FlushAfter == 2

\* the time.After channel of the current select is ready
TimerFired(s) == waited[s] >= FlushAfter

\* a second passes. A worker whose timer has fired takes a case of its select
\* before time goes on.
Tick ==
  /\ \E s \in PipelineSources : WorkerAtSelect(s)
  /\ \A s \in PipelineSources : WorkerAtSelect(s) => ~TimerFired(s)
  /\ \A s \in PipelineSources : pendingAge[s] < MaxAge
  /\ waited' = [s \in Sources |-> IF WorkerAtSelect(s) THEN waited[s] + 1 ELSE waited[s]]
  /\ pendingAge' = [s \in Sources |-> IF batch[s] # << >> THEN pendingAge[s] + 1 ELSE pendingAge[s]]
  /\ UNCHANGED << listenerVars, sourceVars, workerVars, destVars, metricsVars, syncVars, compVars >>

\* case <-time.After(2 * time.Second) with nothing pending: the loop goes
\* round and a new timer starts
WorkerIdleTimeout(s) ==
  /\ WorkerAtSelect(s)
  /\ TimerFired(s)
  /\ batch[s] = << >>
  /\ waited' = [waited EXCEPT ![s] = 0]
  /\ UNCHANGED << listenerVars, sourceVars, workerVars, destVars, metricsVars, syncVars,
                  pendingAge, compVars >>

\* case <-time.After(2 * time.Second) with a batch pending, taken when the
\* timer has fired
WorkerTimerFlush(s) == TimerFired(s) /\ WorkerTimeout(s)

NextBatching ==
  \/ \E s \in PipelineSources : Start(s)
  \/ \E ip \in PeerIPs : RouteMessage(KeyOf("A"), ip, "a")
  \/ \E key \in Keys : SendCompletes(key)
  \/ \E s \in PipelineSources : WorkerRecv(s)
  \/ \E s \in PipelineSources : WorkerTimerFlush(s)
  \/ \E s \in PipelineSources : WorkerIdleTimeout(s)
  \/ Tick

SpecBatching == Init /\ [][NextBatching]_vars

\* C12: the batch worker hands the pending batch to processBatch as soon as it
\* holds batchSize messages or when the 2-second timer fires: at its select
\* the pending batch is always short of batchSize, and no message has been in
\* it for more than 2 seconds, however later messages arrive.
C12_PendingBatchFlushedInTime ==
  \A s \in PipelineSources :
    /\ Len(batch[s]) < BatchSize
    /\ pendingAge[s] <= FlushAfter

\* what the code keeps: the batch is handed over at batchSize, and the timer
\* runs from the last receive, so a message is flushed within 2 seconds of
\* the last message dequeued after it
C12_FlushedAfterQuietPeriod ==
  \A s \in PipelineSources :
    /\ Len(batch[s]) < BatchSize
    /\ waited[s] <= FlushAfter
    /\ batch[s] # << >> => pendingAge[s] <= (Len(batch[s]) - 1) * FlushAfter + waited[s]

\* a message was flushed by the timer after waiting its 2 seconds
C12_TimerFlushReached ==
  /\ batch["A"] = << >>
  /\ destQueues["A"]["f"] # << >>
  /\ waited["A"] = 0
  /\ nextId = 2

(***************************************************************************)
(* filtering.Engine                                                        *)
(***************************************************************************)
\* Strings are sequences of characters. "(" is the one character that is not
\* a letter: a regular expression that holds it has an unclosed group.
NoText == << >>

\* strings.ToLower
ToLowerText(text) == [i \in 1..Len(text) |-> IF text[i] = "E" THEN "e" ELSE text[i]]

\* strings.Contains
Contains(text, sub) ==
  \E i \in 0..(Len(text) - Len(sub)) : SubSeq(text, i + 1, i + Len(sub)) = sub

\* strings.EqualFold
EqualFold(a, b) == ToLowerText(a) = ToLowerText(b)

\* regexp.MatchString returns an error for a pattern that does not compile
RegexCompiles(pattern) == \A i \in 1..Len(pattern) : pattern[i] # "("

\* regexp.MatchString on a pattern of letters: an unanchored, case-sensitive
\* search
MatchString(pattern, text) == Contains(text, pattern)

\* models.LogEvent: Event is a string or a JSON object
\* event.Time.String() of the events: a time prints as a text that is never
\* empty
EventTime == << "t" >>

StringEvent(text, source) ==
  [Event |-> [kind |-> "string", text |-> text, fields |-> EmptyMap], Source |-> source,
   Time |-> EventTime]

ObjectEvent(fields, source) ==
  [Event |-> [kind |-> "object", text |-> NoText, fields |-> fields], Source |-> source,
   Time |-> EventTime]

LogEvents ==
  { StringEvent(<< "E" >>, << "a" >>),
    ObjectEvent([f \in {"message"} |-> << "x", "e" >>], << "a" >>),
    ObjectEvent([f \in {"host"} |-> << "e" >>], << "b" >>) }

FilterRule(field, operator, value, action) ==
  [Field |-> field, Operator |-> operator, Value |-> value, Action |-> action]

FilterRules ==
  { FilterRule("message", "contains", << "e" >>, "include"),
    FilterRule("message", "contains", << "e" >>, "exclude"),
    FilterRule("message", "regex", << "e" >>, "include"),
    FilterRule("message", "regex", << "e" >>, "exclude"),
    FilterRule("message", "regex", << "(", "e" >>, "include"),
    FilterRule("message", "regex", << "(", "e" >>, "exclude"),
    FilterRule("host", "equals", << "E" >>, "exclude"),
    FilterRule("source", "glob", << "a" >>, "include"),
    FilterRule("source", "equals", << "a" >>, "exclude") }

\* Engine.extractFieldValue
ExtractFieldValue(event, field) ==
  CASE field = "message" ->
         IF event.Event.kind = "string" THEN event.Event.text
         ELSE IF "message" \in DOMAIN event.Event.fields THEN event.Event.fields["message"]
         ELSE NoText
    [] field = "source" -> event.Source
    [] field = "time" -> event.Time
    [] OTHER ->
         IF event.Event.kind = "object" /\ field \in DOMAIN event.Event.fields
           THEN event.Event.fields[field]
           ELSE NoText

\* Engine.evaluateRule
EvaluateRule(event, rule) ==
  LET fieldValue == ExtractFieldValue(event, rule.Field)
  IN IF fieldValue = NoText THEN FALSE
     ELSE CASE rule.Operator = "contains" ->
                 Contains(ToLowerText(fieldValue), ToLowerText(rule.Value))
            [] rule.Operator = "equals" -> EqualFold(fieldValue, rule.Value)
            [] rule.Operator = "regex" ->
                 IF ~RegexCompiles(rule.Value) THEN FALSE
                 ELSE MatchString(rule.Value, fieldValue)
            [] OTHER -> FALSE

\* the first rule alone decides
FirstRuleDecides(rules, event) ==
  IF rules = << >> THEN TRUE
  ELSE LET match == EvaluateRule(event, Head(rules))
       IN ~(Head(rules).Action = "exclude" /\ match)
          /\ ~(Head(rules).Action = "include" /\ ~match)

\* Engine.shouldInclude: the loop over the rules, left at the first rule that
\* disqualifies the event
RECURSIVE ShouldInclude(_, _)
ShouldInclude(rules, event) ==
  IF rules = << >> THEN TRUE
  ELSE LET rule == Head(rules)
           match == EvaluateRule(event, rule)
       IN IF rule.Action = "exclude" /\ match THEN FALSE
          ELSE IF rule.Action = "include" /\ ~match THEN FALSE
          ELSE ShouldInclude(Tail(rules), event)

\* the loop of Engine.ProcessBatch
RECURSIVE FilterLoop(_, _)
FilterLoop(rules, events) ==
  IF events = << >> THEN << >>
  ELSE IF ShouldInclude(rules, Head(events))
         THEN << Head(events) >> \o FilterLoop(rules, Tail(events))
         ELSE FilterLoop(rules, Tail(events))

\* Engine.ProcessBatch
EngineProcessBatch(rules, events) ==
  IF Len(rules) = 0 THEN events ELSE FilterLoop(rules, events)

SeqsUpTo(S, n) == UNION {[1..k -> S] : k \in 0..n}

\* NewEngine(config.Filters)
NewEngine(rules) ==
  /\ ~engine.built
  /\ engine' = [built |-> TRUE, rules |-> rules]
  /\ UNCHANGED << filterIn, filterOut >>
  /\ UNCHANGED << pipelineVars, aggVars, storageVars, ringVars, extVars >>

\* a call of Engine.ProcessBatch
FilterBatch(events) ==
  /\ engine.built
  /\ filterIn' = events
  /\ filterOut' = EngineProcessBatch(engine.rules, events)
  /\ UNCHANGED engine
  /\ UNCHANGED << pipelineVars, aggVars, storageVars, ringVars, extVars >>

NextFiltering ==
  \/ \E rules \in SeqsUpTo(FilterRules, MaxRules) : NewEngine(rules)
  \/ \E events \in SeqsUpTo(LogEvents, MaxFilterBatch) : FilterBatch(events)

SpecFiltering == Init /\ [][NextFiltering]_vars

\* rule r of the engine matches the event
RuleMatches(r, event) == EvaluateRule(event, r)

\* no exclude rule matches the event and every include rule matches it
Qualifies(rules, event) ==
  /\ \A i \in 1..Len(rules) : rules[i].Action = "exclude" => ~RuleMatches(rules[i], event)
  /\ \A i \in 1..Len(rules) : rules[i].Action = "include" => RuleMatches(rules[i], event)

\* the positions of the events of a batch that qualify
QualifyingAt(rules, events) == {i \in 1..Len(events) : Qualifies(rules, events[i])}

\* sq is the subsequence of events at the positions pos, in their order
IsSelection(sq, events, pos) ==
  /\ Len(sq) = Cardinality(pos)
  /\ \A i \in pos : sq[Cardinality({j \in pos : j <= i})] = events[i]

Malformed(rule) == rule.Operator = "regex" /\ ~RegexCompiles(rule.Value)

\* the rules without the malformed ones
RECURSIVE WellFormed(_)
WellFormed(rules) ==
  IF rules = << >> THEN << >>
  ELSE IF Malformed(Head(rules)) THEN WellFormed(Tail(rules))
  ELSE << Head(rules) >> \o WellFormed(Tail(rules))

\* C14: a rule with a malformed regex is a non-match and filtering fails open:
\* the batch is evaluated, and no event is discarded on account of that rule,
\* whatever its action. What ProcessBatch returns is what the other rules
\* alone keep.
C14_MalformedRegexFailsOpen ==
  engine.built => filterOut = FilterLoop(WellFormed(engine.rules), filterIn)

\* what the code keeps: a malformed regex never matches, so an exclude rule
\* with one discards nothing
C14_MalformedExcludeDiscardsNothing ==
  (engine.built /\ \A i \in 1..Len(engine.rules) :
       Malformed(engine.rules[i]) => engine.rules[i].Action = "exclude")
    => filterOut = FilterLoop(WellFormed(engine.rules), filterIn)

(***************************************************************************)
(* filtering.Aggregator                                                    *)
(***************************************************************************)
\* the aggregation rule in use, a.rules[0]: group by source, over a window of
\* one second
AggRule == [GroupBy |-> << "source" >>, TimeWindow |-> 1]

\* the sources events come from
AggSources == { << "a" >>, << "b" >> }

\* Aggregator.extractFieldValue
AggExtractFieldValue(event, field) ==
  CASE field = "message" -> event.Event
    [] field = "source" -> event.Source
    [] field = "time" -> event.Time
    [] OTHER -> IF event.Event.kind = "object" /\ field \in DOMAIN event.Event.fields
                  THEN event.Event.fields[field] ELSE NoText

\* Aggregator.generateGroupKey: the hash of the values of the group-by
\* fields, taken as the values themselves
GenerateGroupKey(event, groupByFields) ==
  [i \in 1..Len(groupByFields) |-> AggExtractFieldValue(event, groupByFields[i])]

\* Aggregator.cleanupOldGroups
CleanupOldGroups(g, timeWindow) ==
  LET cutoff == now - timeWindow
      kept == {k \in DOMAIN g : ~(g[k].LastSeen < cutoff)}
  IN [k \in kept |-> g[k]]

\* the loop body of aggregateByRule: one event joins its group
AssignToGroup(g, event, rule) ==
  LET groupKey == GenerateGroupKey(event, rule.GroupBy)
  IN IF groupKey \in DOMAIN g
       THEN [g EXCEPT ![groupKey] =
               [@ EXCEPT !.Events = Append(@, event), !.LastSeen = event.Time,
                         !.Count = @ + 1]]
       ELSE MapPut(g, groupKey,
                   [Key |-> groupKey, Events |-> << event >>, FirstSeen |-> event.Time,
                    LastSeen |-> event.Time, Count |-> 1])

RECURSIVE GroupEvents(_, _, _)
GroupEvents(g, events, rule) ==
  IF events = << >> THEN g
  ELSE GroupEvents(AssignToGroup(g, Head(events), rule), Tail(events), rule)

\* the aggregated event of one group
AggregatedEvent(group) ==
  [Time |-> group.LastSeen, Source |-> group.Events[1].Source,
   first_seen |-> group.FirstSeen, last_seen |-> group.LastSeen, count |-> group.Count,
   group_key |-> group.Key, sample_event |-> group.Events[1].Event]

\* the events aggregateByRule returns, one per group with Count > 0; the
\* order is that of a map iteration and is left open
Aggregated(g) == {AggregatedEvent(g[k]) : k \in {j \in DOMAIN g : g[j].Count > 0}}

\* a second passes
AggTick ==
  /\ now < MaxTime
  /\ now' = now + 1
  /\ UNCHANGED << aggPending, aggParsed, groups, aggOut >>
  /\ UNCHANGED << pipelineVars, filterVars, storageVars, ringVars, extVars >>

\* LogProcessor.parseMessage: an event stamped with the time of its arrival
\* waits for the filtering thread
AggParse(source) ==
  /\ aggParsed < MaxAggEvents
  /\ Len(aggPending) < MaxFilterBatch
  /\ aggPending' = Append(aggPending,
                          [Time |-> now, Source |-> source,
                           Event |-> [kind |-> "string", text |-> << "e" >>, fields |-> EmptyMap]])
  /\ aggParsed' = aggParsed + 1
  /\ UNCHANGED << now, groups, aggOut >>
  /\ UNCHANGED << pipelineVars, filterVars, storageVars, ringVars, extVars >>

\* Aggregator.ProcessBatch with an aggregation rule: aggregateByRule on the
\* waiting events
AggregateBatch ==
  /\ aggPending # << >>
  /\ LET g == GroupEvents(CleanupOldGroups(groups, AggRule.TimeWindow), aggPending, AggRule)
     IN /\ groups' = g
        /\ aggOut' = Aggregated(g)
  /\ aggPending' = << >>
  /\ UNCHANGED << now, aggParsed >>
  /\ UNCHANGED << pipelineVars, filterVars, storageVars, ringVars, extVars >>

NextAggregation ==
  \/ AggTick
  \/ \E source \in AggSources : AggParse(source)
  \/ AggregateBatch

SpecAggregation == Init /\ [][NextAggregation]_vars

\* Aggregator.ProcessBatch returns in this step
AggregateStep == aggPending # << >> /\ aggPending' = << >>

\* the events of the batch that went to group key k
AssignedTo(k, events) ==
  {i \in 1..Len(events) : GenerateGroupKey(events[i], AggRule.GroupBy) = k}

\* the groups that are too old at the time of the call
Stale(g) == {k \in DOMAIN g : g[k].LastSeen < now - AggRule.TimeWindow}

\* every event of the batch is counted in exactly one group, the output has
\* exactly one aggregated event per group, and its count is the number of
\* events assigned to the group since it was created
CountedAndSummarized ==
  /\ \A i \in 1..Len(aggPending) :
       Cardinality({k \in DOMAIN groups' : i \in AssignedTo(k, aggPending)}) = 1
  /\ \A k \in DOMAIN groups' :
       LET before == IF k \in DOMAIN groups \ Stale(groups) THEN groups[k].Count ELSE 0
       IN /\ groups'[k].Count = before + Cardinality(AssignedTo(k, aggPending))
          /\ groups'[k].Count = Len(groups'[k].Events)
          /\ Cardinality({e \in aggOut' : e.group_key = k}) = 1
          /\ \A e \in aggOut' : e.group_key = k =>
               /\ e.count = groups'[k].Count
               /\ e.first_seen = groups'[k].FirstSeen
               /\ e.last_seen = groups'[k].LastSeen
               /\ e.sample_event = groups'[k].Events[1].Event
  /\ \A e \in aggOut' : e.group_key \in DOMAIN groups'
  /\ DOMAIN groups \ Stale(groups) \subseteq DOMAIN groups'

\* C15: after Aggregator.ProcessBatch with an aggregation rule, every group
\* whose lastSeen precedes now - timeWindow has been purged, every incoming
\* event has been counted in exactly one group, and the output holds exactly
\* one summarized event per live group, touched by the batch or not, whose
\* count is the number of events assigned to the group since its creation.
C15_AggregateLeavesLiveGroupsOnly ==
  [][AggregateStep => (Stale(groups)' = {} /\ CountedAndSummarized)]_vars

\* what the code keeps: the groups that were too old when the call began are
\* purged before the batch is assigned, and the counting and the output are
\* as claimed
C15_PurgeBeforeAssign ==
  [][AggregateStep =>
       /\ CountedAndSummarized
       /\ \A k \in Stale(groups) :
            k \in DOMAIN groups' =>
              groups'[k].Count = Cardinality(AssignedTo(k, aggPending))]_vars

\* a batch for one group was aggregated while an older group, untouched by
\* the batch, was still live: the output holds both
C15_UntouchedGroupReached ==
  /\ Cardinality(DOMAIN groups) = 2
  /\ Cardinality(aggOut) = 2
  /\ aggPending = << >>
  /\ \E k \in DOMAIN groups : groups[k].Count = 2
  /\ \E k \in DOMAIN groups : groups[k].LastSeen < now

(***************************************************************************)
(* The storage sinks: StorageHandler and WriteBatchToStorage               *)
(***************************************************************************)
\* models.StorageConfig of the destination: a limit below the default
StorageConfig == [Path |-> "p", MaxEventsPerFile |-> 3]

\* the limit WriteBatchToStorage has in its code (50000), scaled down
HardLimit == 4

RECURSIVE SumSeq(_)
SumSeq(sq) == IF sq = << >> THEN 0 ELSE Head(sq) + SumSeq(Tail(sq))

\* a file is the number of records written to it; the last file of a sink is
\* the one it may have open
AddRecords(files, n) == [files EXCEPT ![Len(files)] = @ + n]

\* StorageHandler.shouldRotate
ShouldRotate(h) ==
  LET maxEvents == IF StorageConfig.MaxEventsPerFile = 0 THEN 50000
                   ELSE StorageConfig.MaxEventsPerFile
  IN h.eventCount >= maxEvents

\* StorageHandler.rotateFile
RotateFile(h) == [h EXCEPT !.open = FALSE, !.eventCount = 0]

\* StorageHandler.openNewFile
OpenNewFile(h) == [open |-> TRUE, eventCount |-> 0, files |-> Append(h.files, 0)]

\* the encoder loop of StorageHandler.ProcessBatch on n events
HandlerWrite(h, n) == [h EXCEPT !.eventCount = @ + n, !.files = AddRecords(@, n)]

\* StorageHandler.ProcessBatch on a batch of n events
HandlerProcessBatch(n) ==
  /\ n > 0
  /\ SumSeq(handler.files) + n <= MaxStored
  /\ LET rotated == IF ShouldRotate(handler) THEN RotateFile(handler) ELSE handler
         opened == IF ~rotated.open THEN OpenNewFile(rotated) ELSE rotated
     IN handler' = HandlerWrite(opened, n)
  /\ UNCHANGED storageState
  /\ UNCHANGED << pipelineVars, filterVars, aggVars, ringVars, extVars >>

\* WriteBatchToStorage on n events: a new file when the key has none or the
\* batch would take the file over the limit
WriteBatchToStorage(n) ==
  /\ SumSeq(storageState.files) + n <= MaxStored
  /\ LET state == IF ~storageState.ok \/ storageState.eventCount + n > HardLimit
                    THEN [ok |-> TRUE, eventCount |-> 0, files |-> Append(storageState.files, 0)]
                    ELSE storageState
     IN storageState' = [state EXCEPT !.eventCount = @ + n, !.files = AddRecords(@, n)]
  /\ UNCHANGED handler
  /\ UNCHANGED << pipelineVars, filterVars, aggVars, ringVars, extVars >>

NextStorage ==
  \/ \E n \in 1..MaxStorageBatch : HandlerProcessBatch(n)
  \/ \E n \in 1..MaxStorageBatch : WriteBatchToStorage(n)

SpecStorage == Init /\ [][NextStorage]_vars

\* the files a sink has closed: all but the last
ClosedFiles(files) == {files[i] : i \in 1..(Len(files) - 1)}

\* C16: with limit maxEventsPerFile, once exactly that many events are in the
\* current file the next event goes to a newly opened file, so the open file
\* never holds more, and every closed file holds exactly maxEventsPerFile
\* records, whatever the batch sizes.
C16_RotatesAtExactlyTheLimit ==
  \A files \in {handler.files, storageState.files} :
    /\ \A n \in ClosedFiles(files) : n = StorageConfig.MaxEventsPerFile
    /\ files # << >> => files[Len(files)] <= StorageConfig.MaxEventsPerFile

\* C17: no storage file ever holds more than maxEventsPerFile records,
\* whatever the batch sizes.
C17_NoFileOverTheLimit ==
  /\ \A i \in 1..Len(handler.files) : handler.files[i] <= StorageConfig.MaxEventsPerFile
  /\ \A i \in 1..Len(storageState.files) :
       storageState.files[i] <= StorageConfig.MaxEventsPerFile

\* what the sinks keep: StorageHandler rotates at the first batch that finds
\* the limit reached, so a file runs over by less than a batch and a closed
\* file holds at least the limit; WriteBatchToStorage keeps every file within
\* its own limit of 50000, whatever the destination configures, and closes
\* files short of it
C17_SinksRotateBetweenBatches ==
  /\ \A i \in 1..Len(handler.files) :
       handler.files[i] < StorageConfig.MaxEventsPerFile + MaxStorageBatch
  /\ \A n \in ClosedFiles(handler.files) : n >= StorageConfig.MaxEventsPerFile
  /\ \A i \in 1..Len(storageState.files) : storageState.files[i] <= HardLimit
  /\ \A n \in ClosedFiles(storageState.files) : n > HardLimit - MaxStorageBatch

\* both sinks have rotated
C17_RotationReached ==
  /\ Len(handler.files) >= 2
  /\ Len(storageState.files) >= 2

(***************************************************************************)
(* The records of a storage file                                           *)
(***************************************************************************)
\* the records of the storage files of source s
StoredRecords(s) ==
  UNION {{written[s][d][i] : i \in 1..Len(written[s][d])} : d \in DestIDs(s)}

\* C18: a record of a storage file, read back, has the structure of the event
\* that was enqueued on the destination queue: one object {time, event,
\* source, simulation_mode} whose event field is the payload received.
C18_StoredRecordIsEnqueuedEvent ==
  \A s \in PipelineSources : \A r \in StoredRecords(s) :
    /\ r.depth = 1
    /\ r.source = Config[s].Name
    /\ r.simulation_mode = Config[s].SimulationMode

\* what the code keeps: the event field of a record is the enqueued event, in
\* which the payload is the event field: the payload sits two objects deep
C18_StoredRecordWrapsEnqueuedEvent ==
  \A s \in PipelineSources :
    /\ \A r \in StoredRecords(s) :
         /\ r.depth = 2
         /\ r.data \in Payloads
         /\ r.source = Config[s].Name
    /\ \A d \in EnabledDestIDs(s) : \A i \in 1..Len(destQueues[s][d]) :
         destQueues[s][d][i].depth = 1

\* a record has been written to the file of f
C18_RecordWritten == written["A"]["f"] # << >>

(***************************************************************************)
(* The ring of data points over time                                       *)
(***************************************************************************)
\* the windows of calculateMetrics, in seconds: the ring has one slot per
\* second of an hour, and a day is 24 hours
HourWindow == RingSize
DayWindow == 24 * RingSize

\* a GetAverage that counts every stored point, whatever its age
ValidPointsAnyAge(cb, duration, t) == 0..(cb.count - 1)

\* the slots GetAverage counts at time t over a window: those of the count
\* most recent whose Timestamp is after the cutoff
ValidPoints(cb, duration, t) ==
  {i \in 0..(cb.count - 1) : RecentPoints(cb)[i].Timestamp > t - duration}

RECURSIVE SumLogs(_, _)
SumLogs(f, idx) ==
  IF idx = {} THEN 0
  ELSE LET i == CHOOSE j \in idx : TRUE IN f[i].LogCount + SumLogs(f, idx \ {i})

\* CircularBuffer.GetAverage(duration) at time t: the average log count
GetAverageOver(cb, duration, t) ==
  LET valid == ValidPoints(cb, duration, t)
  IN IF cb.count = 0 \/ valid = {} THEN 0
     ELSE SumLogs(RecentPoints(cb), valid) \div Cardinality(valid)

\* a one-second tick of updateMetrics: calculateMetrics finds logs events
\* counted since the last tick, adds a data point if there were any, and
\* takes the hourly and daily averages
RingTick(logs) ==
  /\ now < MaxTime
  /\ now' = now + 1
  /\ LET point == [Timestamp |-> now', LogCount |-> logs, DataSize |-> logs]
         cb == IF logs > 0 THEN Add(ring, point) ELSE ring
     IN /\ ring' = cb
        /\ added' = IF logs > 0 THEN Append(added, point) ELSE added
        /\ averages' = [hourly |-> GetAverageOver(cb, HourWindow, now'),
                        daily |-> GetAverageOver(cb, DayWindow, now')]
  /\ UNCHANGED << aggPending, aggParsed, groups, aggOut >>
  /\ UNCHANGED << pipelineVars, filterVars, storageVars, extVars >>

NextRing == \E logs \in 0..MaxSample : RingTick(logs)

SpecRing == Init /\ [][NextRing]_vars

\* C19: after n Add calls on a ring of capacity C the ring holds min(n, C)
\* samples, and they are the most recent ones added, newest first from the
\* head backwards: a full ring overwrites its oldest sample, and count never
\* exceeds C.
C19_RingHoldsMostRecent ==
  /\ ring.count = Min(Len(added), RingSize)
  /\ ring.count <= RingSize
  /\ \A i \in 0..(ring.count - 1) : RecentPoints(ring)[i] = added[Len(added) - i]

\* more points were added than the ring holds, and it is full
C19_Witness ==
  /\ Len(added) > RingSize
  /\ ring.count = RingSize
  /\ ring.head = Len(added) % RingSize

\* C20: GetAverage over any window, the 24-hour one included, never reflects
\* a sample older than C seconds, C the capacity of the ring, also when ticks
\* pass in which no sample is added.
C20_NoSampleOlderThanCapacity ==
  \A duration \in {HourWindow, DayWindow} :
    \A i \in ValidPoints(ring, duration, now) :
      now - RecentPoints(ring)[i].Timestamp <= RingSize

\* what the code keeps: a window reflects only samples newer than its cutoff,
\* so the hourly window reflects none older than C seconds
C20_WindowCutoffKept ==
  /\ \A i \in ValidPoints(ring, HourWindow, now) :
       now - RecentPoints(ring)[i].Timestamp < RingSize
  /\ \A i \in ValidPoints(ring, DayWindow, now) :
       now - RecentPoints(ring)[i].Timestamp < DayWindow
  /\ averages.hourly = GetAverageOver(ring, HourWindow, now)

(***************************************************************************)
(* From payload to event: processBatch of SyslogSource, and parseMessage   *)
(* of LogProcessor                                                         *)
(***************************************************************************)
\* payloads a socket can deliver: a raw line, a JSON object, a JSON value
\* that is no object, the empty payload and a blank one
RawPayloads == {"a", "{}", "1", "", " "}

\* json.Valid(logData); json.Unmarshal into an interface{} succeeds on the same
JsonValid(d) == d \in {"{}", "1"}

\* json.Unmarshal(logData, &event) into a map[string]interface{} succeeds
UnmarshalsToMap(d) == d = "{}"

\* the "event" field processBatch gives the event of payload d
EventField(d) ==
  IF JsonValid(d)
    THEN IF UnmarshalsToMap(d)
           THEN [kind |-> "object", text |-> d]
           ELSE [kind |-> "wrapped", text |-> d]
    ELSE [kind |-> "string", text |-> d]

\* the event processBatch builds from one payload
BuildEvent(s, d) ==
  [event |-> EventField(d), source |-> Config[s].Name,
   simulation_mode |-> Config[s].SimulationMode]

\* the first loop of processBatch: one event per element of the batch
BuildEvents(s, b) == [i \in 1..Len(b) |-> BuildEvent(s, b[i])]

\* processBatch of source A builds the events of batch b
BuildBatch(b) ==
  /\ parseIn' = b
  /\ parseOut' = BuildEvents("A", b)
  /\ UNCHANGED << lpQueue, lpLast >>
  /\ UNCHANGED << pipelineVars, filterVars, aggVars, storageVars, ringVars >>
  /\ UNCHANGED << lockVars, sliceVars, fileVars, moreVars >>

\* strings.TrimSpace on the payloads in use
TrimSpace(d) == IF d = " " THEN "" ELSE d

\* the nil *models.LogEvent
NilEvent == [Event |-> [kind |-> "nil", text |-> ""], Source |-> ""]

\* LogProcessor.parseMessage
ParseMessage(s, data) ==
  IF JsonValid(data)
    THEN [Event |-> [kind |-> "json", text |-> data], Source |-> Config[s].Name]
    ELSE IF TrimSpace(data) = ""
           THEN NilEvent
           ELSE [Event |-> [kind |-> "string", text |-> TrimSpace(data)],
                 Source |-> Config[s].Name]

\* LogQueue.Enqueue: a send with a default case
Enqueue(q, b) == IF Len(q) < LogQueueCap THEN Append(q, b) ELSE q

\* LogProcessor.ProcessRawMessage of source A: parseMessage, then addToBatch,
\* which enqueues the event in a batch of its own
ProcessRawMessage(data) ==
  LET event == ParseMessage("A", data)
  IN /\ lpLast' = [called |-> TRUE, data |-> data, event |-> event]
     /\ lpQueue' = IF event = NilEvent THEN lpQueue ELSE Enqueue(lpQueue, << event >>)
     /\ UNCHANGED << parseIn, parseOut >>
     /\ UNCHANGED << pipelineVars, filterVars, aggVars, storageVars, ringVars >>
     /\ UNCHANGED << lockVars, sliceVars, fileVars, moreVars >>

\* LogQueue.Dequeue by the filtering thread
LpDequeue ==
  /\ lpQueue # << >>
  /\ lpQueue' = Tail(lpQueue)
  /\ UNCHANGED << parseIn, parseOut, lpLast >>
  /\ UNCHANGED << pipelineVars, filterVars, aggVars, storageVars, ringVars >>
  /\ UNCHANGED << lockVars, sliceVars, fileVars, moreVars >>

NextParsing ==
  \/ \E b \in SeqsUpTo(RawPayloads, MaxParseBatch) : BuildBatch(b)
  \/ \E d \in RawPayloads : ProcessRawMessage(d)
  \/ LpDequeue

SpecParsing == Init /\ [][NextParsing]_vars

\* processBatch built one event per message, and the event of a payload that
\* is not valid JSON carries the payload as a string
OneEventPerMessage ==
  /\ Len(parseOut) = Len(parseIn)
  /\ \A i \in 1..Len(parseIn) :
       ~JsonValid(parseIn[i]) => parseOut[i].event = [kind |-> "string", text |-> parseIn[i]]

\* C21: every received message yields exactly one event in its batch; a
\* payload that is not valid JSON becomes an event carrying the raw string,
\* and no message is discarded because of its content, empty and blank
\* payloads included.
C21_EveryMessageYieldsOneEvent ==
  /\ OneEventPerMessage
  /\ lpLast.called => lpLast.event # NilEvent

\* what the code keeps: processBatch of SyslogSource builds one event per
\* message whatever the payload, and parseMessage discards nothing but
\* payloads that are empty once trimmed
C21_OnlyBlankPayloadsDiscarded ==
  /\ OneEventPerMessage
  /\ lpLast.called /\ lpLast.event = NilEvent => TrimSpace(lpLast.data) = ""
  /\ lpLast.called /\ ~JsonValid(lpLast.data) /\ lpLast.event # NilEvent =>
       lpLast.event.Event = [kind |-> "string", text |-> TrimSpace(lpLast.data)]

\* processBatch built an event from a blank payload, and parseMessage was
\* given one
C21_BlankPayloadReached ==
  /\ \E i \in 1..Len(parseIn) : parseIn[i] = " "
  /\ lpLast.called /\ lpLast.data = " "

(***************************************************************************)
(* Overflow of the bounded queues                                          *)
(***************************************************************************)
\* the events processBatch offered to the queue of destination d of s in this
\* step, and those the queue accepted
OfferedTo(s, d) == Len(FannedBatch(s))

AcceptedBy(s, d) == Len(destQueues'[s][d]) - Len(destQueues[s][d])

\* some counter of source s grew by n in this step
CountedAsLost(s, d, n) ==
  \/ eventCount'[s] = eventCount[s] + n
  \/ dataSize'[s] = dataSize[s] + n
  \/ processedCount'[s] = processedCount[s] + n
  \/ destProcessed'[s][d] = destProcessed[s][d] + n

\* a message for source s is offered to its ingestion queue in this step,
\* and the queue is full
OfferedToFullQueue(s) ==
  /\ nextId' # nextId
  /\ lastOp'.target = s
  /\ Enqueues(s)
  /\ ~QueueHasRoom(s)

\* C22: whenever a bounded queue is full the offered message is dropped and
\* the drop is counted as lost, so that for each queue accepted plus lost
\* equals offered: a message offered to a full ingestion queue is dropped
\* there and then, and the events a destination queue did not accept in a
\* processBatch step are counted.
C22_OverflowDroppedAndCounted ==
  [][/\ \A s \in PipelineSources :
          OfferedToFullQueue(s) =>
            /\ queue'[s] = queue[s]
            /\ \A key \in Keys : listenPc'[key] # "send"
     /\ \A s \in PipelineSources :
          ProcessBatchStep(s) =>
            \A d \in EnabledDestIDs(s) :
              AcceptedBy(s, d) < OfferedTo(s, d) =>
                CountedAsLost(s, d, OfferedTo(s, d) - AcceptedBy(s, d))]_vars

\* the drop of a destination queue alone
C22_DestQueueDropCounted ==
  [][\A s \in PipelineSources :
       ProcessBatchStep(s) =>
         \A d \in EnabledDestIDs(s) :
           AcceptedBy(s, d) < OfferedTo(s, d) =>
             CountedAsLost(s, d, OfferedTo(s, d) - AcceptedBy(s, d))]_vars

\* what the code keeps: the events a destination queue accepts are counted in
\* its QueueLength, and a queue accepts what it has room for
C22_AcceptedCountedInQueueLength ==
  [][\A s \in PipelineSources :
       ProcessBatchStep(s) =>
         \A d \in EnabledDestIDs(s) :
           /\ destQueueLength'[s][d] - destQueueLength[s][d] = AcceptedBy(s, d)
           /\ AcceptedBy(s, d) =
                Min(OfferedTo(s, d), DestQueueCap - Len(destQueues[s][d]))]_vars

(***************************************************************************)
(* A listener that cannot be bound                                         *)
(***************************************************************************)
\* the sources registered on any listener of the registry reg
RegisteredAnywhere(reg) == UNION {Registered(reg[key]) : key \in DOMAIN reg}

AddDestinationFails(dest) == dest.Enabled /\ ~dest.Configured

\* the enabled destinations of s whose Config lacks what their type needs
IncompleteDestIDs(s) ==
  {Config[s].Destinations[i].ID :
     i \in {j \in 1..Len(Config[s].Destinations) : AddDestinationFails(Config[s].Destinations[j])}}

\* the destinations of s of a type
DestIDsOfType(s, type) ==
  {d \in EnabledDestIDs(s) : GetDestinationByID(s, d).Type = type}

NextConfig ==
  \/ Start("T")
  \/ \E ip \in PeerIPs : nextId <= MaxConfigMsgs /\ RouteMessage(KeyOf("T"), ip, "a")
  \/ WorkerRecv("T")
  \/ WorkerTimeout("T")
  \/ \E d \in EnabledDestIDs("T") : DestRecv("T", d)
  \/ \E d \in EnabledDestIDs("T") : DestTimeout("T", d)
  \/ \E d \in EnabledDestIDs("T"), resp \in HECResponses : DestHECReply("T", d, resp)
  \/ \E d \in EnabledDestIDs("T") : DestHECTick("T", d)
  \/ \E d \in EnabledDestIDs("T") : DestHECRetry("T", d)

SpecConfig == Init /\ [][NextConfig]_vars

\* C24: a source that has an enabled destination with a missing storage path,
\* HEC URL or API key does not start: Start returns an error, the source does
\* not run and none of its loops is launched, so no batch of it ever reaches
\* the delivery of such a destination.
C24_IncompleteDestinationFailsStart ==
  \A s \in Sources :
    IncompleteDestIDs(s) # {} =>
      /\ ~isRunning[s]
      /\ ~workerStarted[s]
      /\ lastOp.op = "Start" /\ lastOp.src = s => lastOp.err
      /\ \A d \in IncompleteDestIDs(s) : destProcessed[s][d] = 0

\* what the code does with such a destination: every batch handed to its
\* delivery is reported as processed, and nothing is written or posted
C24_IncompleteDestinationSkipped ==
  \A s \in Sources : \A d \in IncompleteDestIDs(s) :
    /\ written[s][d] = << >>
    /\ posted[s][d] = << >>
    /\ destCall[s][d] = NoCall

\* a batch was handed to the delivery of an incomplete destination and
\* reported as processed
C24_SkippedBatchReached ==
  /\ destProcessed["T"]["p"] > 0
  /\ destProcessed["T"]["u"] > 0
  /\ lastOp.op = "route"

(***************************************************************************)
(* What a HEC destination counts as processed                              *)
(***************************************************************************)
\* C26: the delivery of a batch to a HEC destination is reported as successful
\* and the batch counted in the ProcessedCount of the destination only when
\* the endpoint answered a POST of that batch with 200 or 202: the count of a
\* HEC destination is the number of events the endpoint accepted.
C26_HECCountsAcceptedOnly ==
  \A s \in Sources : \A d \in DestIDsOfType(s, "hec") :
    destProcessed[s][d] = Len(posted[s][d])

\* what the code keeps: the same for a destination with a URL and an API key
C26_ConfiguredHECCountsAcceptedOnly ==
  \A s \in Sources : \A d \in DestIDsOfType(s, "hec") \ IncompleteDestIDs(s) :
    destProcessed[s][d] = Len(posted[s][d])

\* the endpoint accepted a batch of the configured HEC destination after a
\* failed attempt
C26_AcceptedReached ==
  /\ posted["T"]["k"] # << >>
  /\ hecFailures["T"]["k"] > 0
  /\ destProcessed["T"]["k"] = Len(posted["T"]["k"])

(***************************************************************************)
(* The loops of a source after Stop                                        *)
(***************************************************************************)
\* Stop sets isRunning and deregisters; s.stopChan is neither closed nor sent
\* on, and the loops of startWorker have no case for it: the goroutines that
\* Start launched stay as they are
NextShutdown ==
  \/ Start("A")
  \/ Stop("A")
  \/ \E ip \in PeerIPs : nextId <= MaxRouted /\ RouteMessage(KeyOf("A"), ip, "a")
  \/ WorkerRecv("A")
  \/ WorkerTimeout("A")
  \/ \E d \in EnabledDestIDs("A") : DestRecv("A", d)
  \/ \E d \in EnabledDestIDs("A") : DestTimeout("A", d)
  \/ MetricsLoad("A")
  \/ MetricsStore("A")

\* the ticker fires every second and a timer fires after two, whether or not
\* the source is running
FairShutdown ==
  /\ WF_vars(WorkerRecv("A"))
  /\ WF_vars(WorkerTimeout("A"))
  /\ \A d \in EnabledDestIDs("A") : WF_vars(DestRecv("A", d)) /\ WF_vars(DestTimeout("A", d))
  /\ WF_vars(MetricsLoad("A"))
  /\ WF_vars(MetricsStore("A"))

SpecShutdown == Init /\ [][NextShutdown]_vars /\ FairShutdown

\* the loops of s were launched and Stop has returned
Stopped(s) == workerStarted[s] /\ ~isRunning[s]

\* C25: after Stop of a source each of its loops, the metrics ticker, the
\* batch worker and every destination worker, observes the stop signal and
\* eventually terminates: unless the source is started again, its loops are
\* eventually gone.
C25_LoopsEndAfterStop ==
  [](Stopped("A") => <>(~workerStarted["A"] \/ isRunning["A"]))

\* no loop of a stopped source takes a message, hands on a batch or computes
\* metrics
C25_StoppedSourceIsQuiet ==
  [][Stopped("A") /\ ~isRunning'["A"] =>
       /\ batch'["A"] = batch["A"]
       /\ destBatch'["A"] = destBatch["A"]
       /\ written'["A"] = written["A"]
       /\ metricsPc'["A"] = metricsPc["A"]]_vars

(***************************************************************************)
(* Start, Stop and routeMessage step by step, with their locks: the        *)
(* sources A and W of UDP 514, each called from a goroutine of its own,    *)
(* and the read loop of every listener object                              *)
(***************************************************************************)
LockSources == {"A", "W"}

\* s.mutex is held: Start and Stop hold it from their first line to their
\* return
MutexHeld(s) == callPc[s] # "idle"

\* sourceMutex of listener object l is held for reading: the read loop of l
\* is inside routeMessage
ReadLocked(l) == routing[l].pc \in {"exact", "wild"}

\* NewSharedListener followed by a successful Start
NewListenerObj == [open |-> TRUE, sources |-> EmptyMap]

\* app.GetSharedListener inside a call on s, which goes on at next: the
\* registered listener, or a new one bound and registered, or an error, on
\* which the call returns
CallGet(s, next) ==
  /\ \/ /\ registry # 0
        /\ callRef' = [callRef EXCEPT ![s] = registry]
        /\ callPc' = [callPc EXCEPT ![s] = next]
        /\ UNCHANGED << listenerObjs, registry, routing >>
     \/ /\ registry = 0
        /\ Len(listenerObjs) < MaxListeners
        /\ listenerObjs' = Append(listenerObjs, NewListenerObj)
        /\ registry' = Len(listenerObjs) + 1
        /\ routing' = Append(routing, [pc |-> "read", ip |-> None])
        /\ callRef' = [callRef EXCEPT ![s] = Len(listenerObjs) + 1]
        /\ callPc' = [callPc EXCEPT ![s] = next]
     \/ /\ registry = 0
        /\ callPc' = [callPc EXCEPT ![s] = "idle"]
        /\ UNCHANGED << callRef, listenerObjs, registry, routing >>
  /\ UNCHANGED running
  /\ UNCHANGED lockRest

\* Start: s.mutex.Lock(), and the source is not running
StartLock(s) ==
  /\ callPc[s] = "idle"
  /\ ~running[s]
  /\ callPc' = [callPc EXCEPT ![s] = "start_get"]
  /\ UNCHANGED << callRef, running, listenerObjs, registry, routing >>
  /\ UNCHANGED lockRest

StartGet(s) == callPc[s] = "start_get" /\ CallGet(s, "start_add")

\* Start: sharedListener.AddSource(s), which takes sourceMutex for writing;
\* then isRunning = true and the call returns nil
StartAdd(s) ==
  /\ callPc[s] = "start_add"
  /\ ~ReadLocked(callRef[s])
  /\ listenerObjs' = [listenerObjs EXCEPT ![callRef[s]] = AddSource(@, s)]
  /\ running' = [running EXCEPT ![s] = TRUE]
  /\ callPc' = [callPc EXCEPT ![s] = "idle"]
  /\ UNCHANGED << callRef, registry, routing >>
  /\ UNCHANGED lockRest

\* Stop: s.mutex.Lock(), the source is running, isRunning = false
StopLock(s) ==
  /\ callPc[s] = "idle"
  /\ running[s]
  /\ running' = [running EXCEPT ![s] = FALSE]
  /\ callPc' = [callPc EXCEPT ![s] = "stop_get"]
  /\ UNCHANGED << callRef, listenerObjs, registry, routing >>
  /\ UNCHANGED lockRest

StopGet(s) == callPc[s] = "stop_get" /\ CallGet(s, "stop_remove")

\* Stop: sharedListener.RemoveSource(s), which takes sourceMutex for writing
StopRemove(s) ==
  /\ callPc[s] = "stop_remove"
  /\ ~ReadLocked(callRef[s])
  /\ listenerObjs' = [listenerObjs EXCEPT ![callRef[s]] = RemoveSource(@, s)]
  /\ callPc' = [callPc EXCEPT ![s] = "stop_count"]
  /\ UNCHANGED << callRef, running, registry, routing >>
  /\ UNCHANGED lockRest

\* Stop: if sharedListener.GetSourceCount() == 0
StopCount(s) ==
  /\ callPc[s] = "stop_count"
  /\ callPc' = [callPc EXCEPT ![s] =
                  IF DOMAIN listenerObjs[callRef[s]].sources = {}
                    THEN "stop_unregister" ELSE "idle"]
  /\ UNCHANGED << callRef, running, listenerObjs, registry, routing >>
  /\ UNCHANGED lockRest

\* Stop: app.RemoveSharedListener, which stops and deletes the listener the
\* registry holds for the key; then the call returns
StopUnregister(s) ==
  /\ callPc[s] = "stop_unregister"
  /\ IF registry # 0
       THEN /\ listenerObjs' = [listenerObjs EXCEPT ![registry].open = FALSE]
            /\ registry' = 0
       ELSE UNCHANGED << listenerObjs, registry >>
  /\ callPc' = [callPc EXCEPT ![s] = "idle"]
  /\ UNCHANGED << callRef, running, routing >>
  /\ UNCHANGED lockRest

\* the read loop of listener object l reads a datagram from ip and enters
\* routeMessage: sourceMutex.RLock()
RouteRecv(l, ip) ==
  /\ listenerObjs[l].open
  /\ routing[l].pc = "read"
  /\ routing' = [routing EXCEPT ![l] = [pc |-> "exact", ip |-> ip]]
  /\ UNCHANGED << callPc, callRef, running, listenerObjs, registry >>
  /\ UNCHANGED lockRest

\* routeMessage at `sl.sources[key]; exists && source.IsRunning()`: IsRunning
\* takes the mutex of the source for reading. A running source gets the
\* message and routeMessage returns, else it goes on at pc next.
RouteLookup(l, key, next) ==
  LET L == listenerObjs[l]
  IN /\ IF key \in DOMAIN L.sources
          THEN /\ ~MutexHeld(L.sources[key])
               /\ routing' = [routing EXCEPT ![l].pc =
                                IF running[L.sources[key]] THEN "read" ELSE next]
          ELSE routing' = [routing EXCEPT ![l].pc = next]
     /\ UNCHANGED << callPc, callRef, running, listenerObjs, registry >>
     /\ UNCHANGED lockRest

RouteExact(l) == routing[l].pc = "exact" /\ RouteLookup(l, routing[l].ip, "wild")

RouteWild(l) == routing[l].pc = "wild" /\ RouteLookup(l, "0.0.0.0", "read")

NextLocks ==
  \/ \E s \in LockSources : StartLock(s)
  \/ \E s \in LockSources : StartGet(s)
  \/ \E s \in LockSources : StartAdd(s)
  \/ \E s \in LockSources : StopLock(s)
  \/ \E s \in LockSources : StopGet(s)
  \/ \E s \in LockSources : StopRemove(s)
  \/ \E s \in LockSources : StopCount(s)
  \/ \E s \in LockSources : StopUnregister(s)
  \/ \E l \in 1..Len(listenerObjs) : \E ip \in PeerIPs : RouteRecv(l, ip)
  \/ \E l \in 1..Len(listenerObjs) : RouteExact(l)
  \/ \E l \in 1..Len(listenerObjs) : RouteWild(l)

SpecLocks == Init /\ [][NextLocks]_vars

\* the source whose mutex the read loop of l needs next, None if it needs none
RouteWaitsFor(l) ==
  LET L == listenerObjs[l]
      r == routing[l]
  IN IF r.pc = "exact" /\ r.ip \in DOMAIN L.sources THEN L.sources[r.ip]
     ELSE IF r.pc = "wild" /\ "0.0.0.0" \in DOMAIN L.sources THEN L.sources["0.0.0.0"]
     ELSE None

\* the call on s and the read loop of l wait for each other: the call holds
\* the mutex of s and needs sourceMutex of l, the read loop holds sourceMutex
\* of l and needs the mutex of s
WaitForEachOther(s, l) ==
  /\ callRef[s] = l
  /\ ReadLocked(l)
  /\ RouteWaitsFor(l) = s

\* C27: no interleaving of Stop with routeMessage deadlocks: Stop, holding the
\* mutex of the source, and routeMessage, holding sourceMutex for reading,
\* never wait for each other, so every Stop call and every routeMessage call
\* returns.
C27_StopAndRouteNeverDeadlock ==
  \A s \in LockSources : \A l \in 1..Len(listenerObjs) :
    ~(callPc[s] = "stop_remove" /\ WaitForEachOther(s, l))

\* Start and routeMessage never wait for each other: while Start holds the
\* mutex of a source, the source is registered on no listener
C27_StartAndRouteNeverDeadlock ==
  \A s \in LockSources : \A l \in 1..Len(listenerObjs) :
    ~(callPc[s] = "start_add" /\ WaitForEachOther(s, l))

(***************************************************************************)
(* Stop of one source while another starts on the same listener            *)
(***************************************************************************)
\* C29: under every interleaving of Stop of one source with Start of another
\* on the same (protocol, port), a source whose Start returned nil is
\* registered on a listener that is open and present in the registry.
C29_StartedSourceOnOpenListener ==
  \A s \in LockSources :
    (running[s] /\ callPc[s] = "idle") =>
       /\ registry # 0
       /\ listenerObjs[registry].open
       /\ s \in Registered(listenerObjs[registry])

\* what the code keeps: a source whose Start returned nil is registered on
\* the listener object its Start was given, open or not
C29_StartedSourceRegisteredSomewhere ==
  \A s \in LockSources :
    (running[s] /\ callPc[s] = "idle") =>
       s \in Registered(listenerObjs[callRef[s]])

(***************************************************************************)
(* The byte slices the read loop hands to the queue of a source            *)
(***************************************************************************)
\* the bytes of a datagram
DatagramBytes == {"a", "b"}

\* the datagrams a peer sends: one to MaxDatagram bytes
Datagrams == UNION {[1..n -> DatagramBytes] : n \in 1..MaxDatagram}

\* buffer[:n]: a slice is the first n bytes of the one read buffer of the
\* loop, not a copy of them
SliceBytes(sl) == SubSeq(udpBuffer, 1, sl.n)

\* string(logData) of every slice of a batch, as processBatch reads them
SliceStrings(b) ==
  [i \in 1..Len(b) |-> [event |-> SliceBytes(b[i]), received |-> b[i].received]]

\* handleUDPConnections, routeMessage and processMessage for one datagram:
\* ReadFromUDP(buffer) writes the datagram over the start of the buffer and
\* `s.queue <- data` queues buffer[:n]; the send waits for room in the queue.
\* received keeps the bytes as they were read, for the properties only.
UdpRead(p) ==
  /\ Len(sliceQueue) < QueueCap
  /\ udpBuffer' = [i \in 1..MaxDatagram |-> IF i <= Len(p) THEN p[i] ELSE udpBuffer[i]]
  /\ sliceQueue' = Append(sliceQueue, [n |-> Len(p), received |-> p])
  /\ UNCHANGED << sliceBatch, sliceEvents >>
  /\ UNCHANGED sliceRest

\* the worker of startWorker takes a slice from the queue and processes the
\* batch when it is full
SliceRecv ==
  /\ sliceQueue # << >>
  /\ sliceQueue' = Tail(sliceQueue)
  /\ LET b == Append(sliceBatch, Head(sliceQueue))
     IN IF Len(b) >= BatchSize
          THEN sliceEvents' = SliceStrings(b) /\ sliceBatch' = << >>
          ELSE sliceBatch' = b /\ UNCHANGED sliceEvents
  /\ UNCHANGED udpBuffer
  /\ UNCHANGED sliceRest

\* the worker of startWorker after two seconds without a message
SliceTimeout ==
  /\ sliceBatch # << >>
  /\ sliceEvents' = SliceStrings(sliceBatch)
  /\ sliceBatch' = << >>
  /\ UNCHANGED << udpBuffer, sliceQueue >>
  /\ UNCHANGED sliceRest

NextSlices ==
  \/ \E p \in Datagrams : UdpRead(p)
  \/ SliceRecv
  \/ SliceTimeout

SpecSlices == Init /\ [][NextSlices]_vars

\* C28: the bytes of a queued message do not change between its receipt and
\* its processing: later reads into the read buffer never alter a message
\* that waits in the queue or in the batch, and every event carries the bytes
\* that were received.
C28_QueuedBytesUnchanged ==
  /\ \A i \in 1..Len(sliceQueue) : SliceBytes(sliceQueue[i]) = sliceQueue[i].received
  /\ \A i \in 1..Len(sliceBatch) : SliceBytes(sliceBatch[i]) = sliceBatch[i].received
  /\ \A i \in 1..Len(sliceEvents) : sliceEvents[i].event = sliceEvents[i].received

\* what the code keeps: the length of a queued message, and the bytes of the
\* message read last
C28_LengthAndLastMessageUnchanged ==
  /\ \A i \in 1..Len(sliceEvents) : Len(sliceEvents[i].event) = Len(sliceEvents[i].received)
  /\ sliceQueue # << >> =>
       SliceBytes(sliceQueue[Len(sliceQueue)]) = sliceQueue[Len(sliceQueue)].received

(***************************************************************************)
(* The storage files of one source, written by its destination workers     *)
(***************************************************************************)
\* os.Create and the storageFileState that holds the new handle: open, no
\* event counted, written and closed by nobody yet
NewFileObj(path) ==
  [open |-> TRUE, eventCount |-> 0, path |-> path, writers |-> {}, closer |-> None]

\* `!ok || state.eventCount+len(events) > 50000`
NeedsNewFile(path, n) ==
  fileState[path] = 0 \/ fileObjs[fileState[path]].eventCount + n > HardLimit

\* state.file.Close() by worker w on handle f; the first close is the one
\* that closes it
CloseFile(objs, f, w) ==
  IF objs[f].open THEN [objs EXCEPT ![f].open = FALSE, ![f].closer = w] ELSE objs

\* some other worker is between two of its writes to handle f
WritesAlongside(w, f) ==
  \E v \in StorageWriters \ {w} : writerPc[v] = "encode" /\ writerFile[v] = f

\* WriteBatchToStorage of worker w for a batch of n events, up to
\* storageState.Unlock(): under the lock the state of
\* sourceName + "::" + path is looked up; a missing or full file is replaced,
\* the old handle closed, and with the error of os.Create the call returns.
\* The worker goes on with the state it has found or made.
WriteLookup(w, n) ==
  LET path == WriterPath(w)
      old == fileState[path]
  IN /\ writerPc[w] = "idle"
     /\ IF NeedsNewFile(path, n)
          THEN /\ Len(fileObjs) < MaxFiles
               /\ \E created \in BOOLEAN :
                    LET closed == IF old # 0 THEN CloseFile(fileObjs, old, w) ELSE fileObjs
                    IN IF created
                         THEN /\ fileObjs' = Append(closed, NewFileObj(path))
                              /\ fileState' = [fileState EXCEPT ![path] = Len(fileObjs) + 1]
                              /\ writerFile' = [writerFile EXCEPT ![w] = Len(fileObjs) + 1]
                              /\ writerPc' = [writerPc EXCEPT ![w] = "encode"]
                              /\ writerLeft' = [writerLeft EXCEPT ![w] = n]
                         ELSE /\ fileObjs' = closed
                              /\ UNCHANGED << fileState, writerFile, writerPc, writerLeft >>
          ELSE /\ writerFile' = [writerFile EXCEPT ![w] = old]
               /\ writerPc' = [writerPc EXCEPT ![w] = "encode"]
               /\ writerLeft' = [writerLeft EXCEPT ![w] = n]
               /\ UNCHANGED << fileObjs, fileState >>
     /\ UNCHANGED closedWrite
     /\ UNCHANGED fileRest

\* one round of the loop after the unlock: enc.Encode(event) on the handle of
\* the state, then state.eventCount++. A write to a closed handle is an error
\* and the call returns. The increment takes no lock: next to the increment of
\* another worker on the same state it may be lost.
WriteEncode(w) ==
  LET f == writerFile[w]
  IN /\ writerPc[w] = "encode"
     /\ IF fileObjs[f].open
          THEN /\ \E counted \in {c \in BOOLEAN : c \/ WritesAlongside(w, f)} :
                    fileObjs' = [fileObjs EXCEPT
                                   ![f].writers = @ \cup {w},
                                   ![f].eventCount = IF counted THEN @ + 1 ELSE @]
               /\ writerLeft' = [writerLeft EXCEPT ![w] = @ - 1]
               /\ writerPc' = [writerPc EXCEPT ![w] = IF writerLeft[w] = 1 THEN "idle" ELSE "encode"]
               /\ UNCHANGED closedWrite
          ELSE /\ closedWrite' = (closedWrite \/ fileObjs[f].closer # w)
               /\ writerLeft' = [writerLeft EXCEPT ![w] = 0]
               /\ writerPc' = [writerPc EXCEPT ![w] = "idle"]
               /\ UNCHANGED fileObjs
     /\ UNCHANGED << fileState, writerFile >>
     /\ UNCHANGED fileRest

NextSharedFile ==
  \/ \E w \in StorageWriters : \E n \in 1..MaxStorageBatch : WriteLookup(w, n)
  \/ \E w \in StorageWriters : WriteEncode(w)

SpecSharedFile == Init /\ [][NextSharedFile]_vars

\* the workers that have written to handle f or closed it
WorkersOf(f) ==
  fileObjs[f].writers \cup (IF fileObjs[f].closer = None THEN {} ELSE {fileObjs[f].closer})

\* C30: each open file handle of a destination is written and closed by
\* exactly one worker, also when two destinations of one source have the same
\* path, and no write goes to a handle that another worker has closed.
C30_OneWorkerPerHandle ==
  /\ \A f \in 1..Len(fileObjs) : Cardinality(WorkersOf(f)) <= 1
  /\ ~closedWrite

\* a destination whose path no other destination of the source has, has its
\* handles to itself
C30_OwnPathOwnHandle ==
  \A f \in 1..Len(fileObjs) : fileObjs[f].path = WriterPath("j") => WorkersOf(f) \subseteq {"j"}

\* the second half of the claim alone: a write to a handle another worker
\* closed
C30_NoWriteAfterForeignClose == ~closedWrite

(***************************************************************************)
(* What RemoveSource leaves of the registrations of other sources          *)
(***************************************************************************)
\* the sources in the map of the listener that registry reg holds for key
RegisteredIn(reg, key) == IF key \in DOMAIN reg THEN Registered(reg[key]) ELSE {}

\* C31: RemoveSource of a source removes only the registration of that
\* source: every other started source that is registered on a listener is
\* still registered on it when Stop of the source returns, also a source
\* registered under the same key ("" and "0.0.0.0" are both the wildcard key).
C31_RemoveSourceKeepsOthers ==
  [][\A s \in Sources :
       (Stop(s) /\ isRunning[s])
         => \A o \in Sources \ {s} :
              (isRunning[o] /\ o \in RegisteredIn(sharedListeners, KeyOf(o)))
                => o \in RegisteredIn(sharedListeners', KeyOf(o))]_vars

\* what the code keeps: the registrations under every other key of the
\* listener, and every registration on another listener
C31_RemoveSourceKeepsOtherKeys ==
  [][\A s \in Sources :
       (Stop(s) /\ isRunning[s])
         => \A o \in Sources \ {s} :
              (/\ isRunning[o]
               /\ o \in RegisteredIn(sharedListeners, KeyOf(o))
               /\ (KeyOf(o) # KeyOf(s) \/ SourceKey(o) # SourceKey(s)))
                => o \in RegisteredIn(sharedListeners', KeyOf(o))]_vars

(***************************************************************************)
(* The counters between the load and the reset of calculateMetrics         *)
(***************************************************************************)
\* the ring of s has not wrapped: no sample has been overwritten
NotWrapped(s) == buffer[s].count < RingSize

\* C32: every message counted by processMessage is in exactly one sample:
\* between two runs of calculateMetrics, and before the ring wraps, the
\* LogCount of the recorded samples and the counter not yet sampled add up to
\* the number of messages received; the load of the counters and the later
\* store of zero lose no increment made in between.
C32_NoIncrementLost ==
  \A s \in PipelineSources :
    (metricsPc[s] = "wait" /\ NotWrapped(s)) =>
       SampleSum(s, "LogCount") + eventCount[s] = received[s]

\* what the code keeps: no message is counted twice, and while
\* calculateMetrics is not between its load and its reset the counter holds
\* no more than what was received
C32_NothingCountedTwice ==
  \A s \in PipelineSources :
    NotWrapped(s) =>
      SampleSum(s, "LogCount") + (IF metricsPc[s] = "wait" THEN eventCount[s] ELSE 0) <= received[s]

\* the reset of calculateMetrics alone loses nothing when no message arrives
\* between the load and the reset
C32_ResetKeepsLoadedCount ==
  [][\A s \in PipelineSources :
       (MetricsStore(s) /\ NotWrapped(s)' /\ eventCount[s] = current[s].LogCount)
          => SampleSum(s, "LogCount")' = SampleSum(s, "LogCount") + eventCount[s]]_vars

(***************************************************************************)
(* The names of the files the storage sinks create                         *)
(***************************************************************************)
\* sourceName + "_" + time.Now().Format("20060102_150405") + ".json": for one
\* source and path the name is the second of the wall clock
FileName(t) == t

\* os.Create(filePath) in directory d: the file is created, or truncated to
\* no record if the name exists
OsCreate(d, name) == MapPut(d, name, 0)

\* os.Create empties a file of d that holds records
Truncates(d, name) == name \in DOMAIN d /\ d[name] > 0

\* n records encoded to the file of that name
Encoded(d, name, n) == [d EXCEPT ![name] = @ + n]

\* the ticker of the wall clock
FsTick ==
  /\ fsNow < MaxTime
  /\ fsNow' = fsNow + 1
  /\ UNCHANGED << disk, fsState, createdNames, truncated >>
  /\ UNCHANGED nameRest

\* sink w creates and opens the file named after the present second, then
\* writes n records to the file it has open
CreateAndWrite(w, n) ==
  LET name == FileName(fsNow)
  IN /\ Len(createdNames[w]) < MaxFiles
     /\ disk' = [disk EXCEPT ![w] = Encoded(OsCreate(@, name), name, n)]
     /\ fsState' = [fsState EXCEPT ![w] = [open |-> TRUE, name |-> name, eventCount |-> n]]
     /\ createdNames' = [createdNames EXCEPT ![w] = Append(@, name)]
     /\ truncated' = [truncated EXCEPT ![w] = @ \/ Truncates(disk[w], name)]

\* sink w writes n records to the file it has open
WriteOn(w, n) ==
  /\ disk' = [disk EXCEPT ![w] = Encoded(@, fsState[w].name, n)]
  /\ fsState' = [fsState EXCEPT ![w].eventCount = @ + n]
  /\ UNCHANGED << createdNames, truncated >>

\* WriteBatchToStorage on n events, with the name of the file it creates
NamedWriteBatchToStorage(n) ==
  /\ IF ~fsState["sink"].open \/ fsState["sink"].eventCount + n > HardLimit
       THEN CreateAndWrite("sink", n)
       ELSE WriteOn("sink", n)
  /\ UNCHANGED fsNow
  /\ UNCHANGED nameRest

\* StorageHandler.ProcessBatch on n events, with the name openNewFile gives
\* the file: rotateFile when shouldRotate, openNewFile when no file is open
NamedHandlerProcessBatch(n) ==
  /\ n > 0
  /\ IF ~fsState["handler"].open \/ ShouldRotate(fsState["handler"])
       THEN CreateAndWrite("handler", n)
       ELSE WriteOn("handler", n)
  /\ UNCHANGED fsNow
  /\ UNCHANGED nameRest

NextNaming ==
  \/ FsTick
  \/ \E n \in 1..MaxStorageBatch : NamedWriteBatchToStorage(n)
  \/ \E n \in 1..MaxStorageBatch : NamedHandlerProcessBatch(n)

SpecNaming == Init /\ [][NextNaming]_vars

\* C33: rotation never truncates or overwrites a file that holds written
\* records: any two files a sink creates for one source and path have
\* distinct names, also when two are opened within the same second.
C33_RotationNeverOverwrites ==
  \A w \in StorageSinks :
    /\ ~truncated[w]
    /\ \A i, j \in 1..Len(createdNames[w]) : i # j => createdNames[w][i] # createdNames[w][j]

\* what the code keeps: files created in different seconds have different
\* names, so a file is emptied only by a rotation in the second it was
\* created in
C33_OverwrittenOnlyWithinTheSecond ==
  [][\A w \in StorageSinks :
       (truncated'[w] /\ ~truncated[w]) =>
          /\ fsState[w].open
          /\ fsState[w].name = FileName(fsNow)]_vars

(***************************************************************************)
(* GetAverage against the record of the points added                       *)
(***************************************************************************)
\* the points the ring still stores: the last RingSize of those added
StoredSamples == {i \in 1..Len(added) : i > Len(added) - RingSize}

\* the stored samples newer than now - window
Qualifying(window) == {i \in StoredSamples : added[i].Timestamp > now - window}

\* C34: GetAverage(window) is computed from exactly the stored samples whose
\* timestamp is newer than now - window, and is (0,0) when no stored sample
\* qualifies, also on an empty buffer and on slots never written.
C34_AverageOverQualifyingSamples ==
  \A window \in 1..DayWindow :
    /\ GetAverageOver(ring, window, now) =
         IF Qualifying(window) = {} THEN 0
         ELSE SumLogs(added, Qualifying(window)) \div Cardinality(Qualifying(window))
    /\ Cardinality(ValidPoints(ring, window, now)) = Cardinality(Qualifying(window))
    /\ {RecentPoints(ring)[i] : i \in ValidPoints(ring, window, now)} =
         {added[i] : i \in Qualifying(window)}

\* the ring stores a sample older than the hourly window next to one inside
\* it, and the hourly average is that of the newer one alone
C34_Witness ==
  /\ ring.count = RingSize
  /\ Cardinality(ValidPoints(ring, HourWindow, now)) = 1
  /\ averages.hourly > 0
  /\ \E i \in 0..(ring.count - 1) : RecentPoints(ring)[i].Timestamp <= now - HourWindow

(***************************************************************************)
(* The QueueLength metric of a destination against its backlog             *)
(***************************************************************************)
\* the events of destination d of s that are enqueued and not yet handled:
\* in its queue, in the pending batch of its worker, or in the batch the
\* worker is delivering
Backlog(s, d) == Len(destQueues[s][d]) + Len(destBatch[s][d]) + Len(destCall[s][d].events)

\* C35: for each destination the QueueLength metric equals the number of
\* events in its queue plus those in the batch of its worker; it is never
\* negative, and it is back at 0 once everything enqueued has been handled,
\* whether the delivery succeeded, failed, or the config was unusable.
C35_QueueLengthIsBacklog ==
  \A s \in PipelineSources : \A d \in EnabledDestIDs(s) :
    /\ destQueueLength[s][d] = Backlog(s, d)
    /\ destQueueLength[s][d] >= 0
    /\ Backlog(s, d) = 0 => destQueueLength[s][d] = 0

\* what the code keeps: the metric is never negative and never below the
\* backlog
C35_QueueLengthAtLeastBacklog ==
  \A s \in PipelineSources : \A d \in EnabledDestIDs(s) :
    /\ destQueueLength[s][d] >= Backlog(s, d)
    /\ destQueueLength[s][d] >= 0

(***************************************************************************)
(* isReceiving: the last message against the ten-second window             *)
(***************************************************************************)
\* a window test that still holds at exactly the window
IsReceivingUpToWindow(last, t) == last.set /\ t - last.t <= ReceivingWindow

\* !lastMsgTime.IsZero() && now.Sub(lastMsgTime) < 10*time.Second
IsReceivingAt(last, t) == last.set /\ t - last.t < ReceivingWindow

\* a second of the wall clock passes
RecvClock ==
  /\ rcvNow < MaxClock
  /\ rcvNow' = rcvNow + 1
  /\ UNCHANGED << lastMessageTime, lastArrival, tickPc, tickNow, isReceiving, lpReceiving >>
  /\ UNCHANGED recvRest

\* processMessage (ProcessRawMessage): lastMessageTime = time.Now() under
\* msgMutex, which the tick does not hold while it waits
RecvMessage ==
  /\ lastMessageTime' = [set |-> TRUE, t |-> rcvNow]
  /\ lastArrival' = [any |-> TRUE, t |-> rcvNow]
  /\ UNCHANGED << rcvNow, tickPc, tickNow, isReceiving, lpReceiving >>
  /\ UNCHANGED recvRest

\* calculateMetrics at a tick, first line: now := time.Now()
ReceivingTickBegin ==
  /\ tickPc = "wait"
  /\ tickPc' = "calc"
  /\ tickNow' = rcvNow
  /\ UNCHANGED << rcvNow, lastMessageTime, lastArrival, isReceiving, lpReceiving >>
  /\ UNCHANGED recvRest

\* calculateMetrics: lastMsgTime read under msgMutex.RLock, and IsReceiving
\* set from it and from now
ReceivingTickEnd ==
  /\ tickPc = "calc"
  /\ tickPc' = "wait"
  /\ isReceiving' = IsReceivingAt(lastMessageTime, tickNow)
  /\ UNCHANGED << rcvNow, lastMessageTime, lastArrival, tickNow, lpReceiving >>
  /\ UNCHANGED recvRest

\* LogProcessor.GetMetrics: isReceiving from lastMessageAt and time.Since
LpGetMetrics ==
  /\ lpReceiving' = [called |-> TRUE, at |-> rcvNow,
                     value |-> IsReceivingAt(lastMessageTime, rcvNow)]
  /\ UNCHANGED << rcvNow, lastMessageTime, lastArrival, tickPc, tickNow, isReceiving >>
  /\ UNCHANGED recvRest

NextReceiving ==
  \/ RecvClock
  \/ RecvMessage
  \/ ReceivingTickBegin
  \/ ReceivingTickEnd
  \/ LpGetMetrics

SpecReceiving == Init /\ [][NextReceiving]_vars

\* C36: after every tick isReceiving is true if and only if a message has
\* been received and the last one arrived less than ten seconds before the
\* tick: false before any message, and false from the first tick ten seconds
\* or more after the last message. (GetMetrics of LogProcessor computes the
\* same at the time of the call.)
C36_ReceivingIffMessageWithinWindow ==
  [][/\ ReceivingTickEnd =>
          (isReceiving' <=> (lastArrival.any /\ tickNow - lastArrival.t < ReceivingWindow))
     /\ LpGetMetrics =>
          (lpReceiving'.value <=> (lastArrival.any /\ rcvNow - lastArrival.t < ReceivingWindow))
     /\ (~lastArrival'.any) => ~isReceiving']_vars

\* a tick exactly ReceivingWindow seconds after the last message has set
\* isReceiving to false; a GetMetrics call of LogProcessor before that tick
\* had found the source receiving
C36_Witness ==
  /\ lastArrival.any
  /\ tickPc = "wait"
  /\ tickNow - lastArrival.t = ReceivingWindow
  /\ ~isReceiving
  /\ lpReceiving.called /\ lpReceiving.value /\ lpReceiving.at < tickNow

(***************************************************************************)
(* The value GetMetrics returns, and the ticker that goes on writing       *)
(***************************************************************************)
\* what the holder of a returned SourceMetrics sees in it: its own copy of
\* the plain fields, and behind the DestMetrics header the map of the source
ViewOf(v) == [RealTimeEPS |-> v.RealTimeEPS, DestMetrics |-> liveDest]

\* calculateMetrics at a tick: s.mutex.Lock(), the plain fields written, and
\* the loop over destMetrics about to start
SnapTickBegin ==
  /\ snapTickPc = "wait"
  /\ \E eps \in 0..MaxSample : liveEPS' = eps
  /\ snapTickPc' = "writing"
  /\ snapTodo' = DOMAIN liveDest
  /\ UNCHANGED << liveDest, snapshot, snapTaken, readerPc >>
  /\ UNCHANGED snapRest

\* one round of the loop: s.metrics.DestMetrics[destID] = ...; after the last
\* round the call returns and unlocks
SnapTickWrite(d) ==
  /\ snapTickPc = "writing"
  /\ d \in snapTodo
  /\ \E n \in 0..MaxSample : liveDest' = [liveDest EXCEPT ![d] = n]
  /\ snapTodo' = snapTodo \ {d}
  /\ snapTickPc' = IF snapTodo = {d} THEN "wait" ELSE "writing"
  /\ UNCHANGED << liveEPS, snapshot, snapTaken, readerPc >>
  /\ UNCHANGED snapRest

\* GetMetrics: under s.mutex.RLock(), return *s.metrics: the struct is
\* copied, the map field with it as a header to the same map
GetMetricsCall ==
  /\ snapTickPc = "wait"
  /\ readerPc = "idle"
  /\ snapshot' = [taken |-> TRUE, RealTimeEPS |-> liveEPS, DestMetrics |-> "s.metrics.DestMetrics"]
  /\ snapTaken' = [RealTimeEPS |-> liveEPS, DestMetrics |-> liveDest]
  /\ UNCHANGED << liveEPS, liveDest, snapTickPc, snapTodo, readerPc >>
  /\ UNCHANGED snapRest

\* the caller starts to read the DestMetrics of the value it holds (the web
\* server encodes it), holding no lock of the source
ReadBegin ==
  /\ snapshot.taken
  /\ readerPc = "idle"
  /\ readerPc' = "reading"
  /\ UNCHANGED << liveEPS, liveDest, snapTickPc, snapTodo, snapshot, snapTaken >>
  /\ UNCHANGED snapRest

ReadEnd ==
  /\ readerPc = "reading"
  /\ readerPc' = "idle"
  /\ UNCHANGED << liveEPS, liveDest, snapTickPc, snapTodo, snapshot, snapTaken >>
  /\ UNCHANGED snapRest

NextSnapshot ==
  \/ SnapTickBegin
  \/ \E d \in EnabledDestIDs("A") : SnapTickWrite(d)
  \/ GetMetricsCall
  \/ ReadBegin
  \/ ReadEnd

SpecSnapshot == Init /\ [][NextSnapshot]_vars

\* C37: the value GetMetrics returned is a snapshot: later ticks do not
\* modify it, and no caller reads the per-destination map of a returned value
\* while the ticker writes that map.
C37_ReturnedMetricsIsSnapshot ==
  /\ snapshot.taken => ViewOf(snapshot) = snapTaken
  /\ ~(readerPc = "reading" /\ snapTickPc = "writing")

\* what the code keeps: the plain fields of a returned value are its own, and
\* GetMetrics itself never runs while the ticker writes
C37_PlainFieldsAreCopied ==
  /\ snapshot.taken => ViewOf(snapshot).RealTimeEPS = snapTaken.RealTimeEPS
  /\ [][GetMetricsCall => snapTickPc = "wait"]_vars

\* the second half of the claim alone
C37_NoReadWhileTickerWrites == ~(readerPc = "reading" /\ snapTickPc = "writing")

(***************************************************************************)
(* Field extraction on an event whose payload is a raw string              *)
(***************************************************************************)
\* the fields a rule can name: the well-known ones and a JSON field
RuleFields == {"message", "source", "time", "host"}

\* the events of the last batch whose payload is a raw string
RawStringEvents == {filterIn[i] : i \in {j \in 1..Len(filterIn) : filterIn[j].Event.kind = "string"}}

\* the rules of the engine
EngineRules == {engine.rules[i] : i \in 1..Len(engine.rules)}

\* C38: for an event whose payload is a raw string, field extraction resolves
\* only the field message, to the whole string: a rule on any other field,
\* source and time included, sees no value and does not match.
C38_RawStringResolvesMessageOnly ==
  \A e \in RawStringEvents :
    /\ ExtractFieldValue(e, "message") = e.Event.text
    /\ \A field \in RuleFields \ {"message"} : ExtractFieldValue(e, field) = NoText
    /\ \A r \in EngineRules : r.Field # "message" => ~EvaluateRule(e, r)

\* what the code keeps: message is the whole string, source and time are
\* those of the event whatever its payload, and a JSON field has no value
C38_RawStringResolvesWellKnownFields ==
  \A e \in RawStringEvents :
    /\ ExtractFieldValue(e, "message") = e.Event.text
    /\ ExtractFieldValue(e, "source") = e.Source
    /\ ExtractFieldValue(e, "time") = e.Time
    /\ ExtractFieldValue(e, "host") = NoText
    /\ \A r \in EngineRules : r.Field \notin {"message", "source", "time"} => ~EvaluateRule(e, r)

\* a rule on source has matched a raw-string event
C38_SourceRuleMatched ==
  \E e \in RawStringEvents : \E r \in EngineRules : r.Field = "source" /\ EvaluateRule(e, r)

(***************************************************************************)
(* Handler: the destinations of all sources in one map                     *)
(***************************************************************************)
\* source names and destination IDs, as texts: validateSource asks only for a
\* name that is not empty
SourceNames == { << "a" >>, << "a", "_", "b" >> }
DestinationIDs == { << "c" >>, << "b", "_", "c" >> }

\* fmt.Sprintf("%s_%s", sourceName, dest.ID)
DestinationKey(sourceName, id) == sourceName \o << "_" >> \o id

\* len(key) >= len(expectedPrefix) && key[:len(expectedPrefix)] == expectedPrefix
HasPrefix(key, prefix) ==
  Len(key) >= Len(prefix) /\ SubSeq(key, 1, Len(prefix)) = prefix

\* Handler.AddDestination of an enabled destination whose processor could be
\* created
AddDestination(sourceName, id) ==
  /\ hDestinations' = MapPut(hDestinations, DestinationKey(sourceName, id),
                             [sourceName |-> sourceName, ID |-> id])
  /\ UNCHANGED hInvoked
  /\ UNCHANGED procRest

\* Handler.RemoveDestination
RemoveDestination(id, sourceName) ==
  /\ DestinationKey(sourceName, id) \in DOMAIN hDestinations
  /\ hDestinations' = MapDelete(hDestinations, DestinationKey(sourceName, id))
  /\ UNCHANGED hInvoked
  /\ UNCHANGED procRest

\* Handler.ProcessBatch(batch, sourceName): the processors of the keys that
\* begin with sourceName + "_" are given the batch
HandlerDispatch(sourceName) ==
  /\ hInvoked' = [called |-> TRUE, sourceName |-> sourceName,
                  processors |-> {hDestinations[key] :
                                    key \in {k \in DOMAIN hDestinations :
                                               HasPrefix(k, sourceName \o << "_" >>)}}]
  /\ UNCHANGED hDestinations
  /\ UNCHANGED procRest

NextHandler ==
  \/ \E sourceName \in SourceNames : \E id \in DestinationIDs : AddDestination(sourceName, id)
  \/ \E sourceName \in SourceNames : \E id \in DestinationIDs : RemoveDestination(id, sourceName)
  \/ \E sourceName \in SourceNames : HandlerDispatch(sourceName)

SpecHandler == Init /\ [][NextHandler]_vars

\* C39: ProcessBatch(batch, sourceName) invokes only the processors that were
\* added with exactly that sourceName: a destination added for another source
\* is never given the batch, also when one source name followed by "_" is a
\* prefix of the key of another source.
C39_OnlyOwnProcessorsInvoked ==
  hInvoked.called => \A p \in hInvoked.processors : p.sourceName = hInvoked.sourceName

\* what the code keeps: the batch goes to the processors whose key begins
\* with the source name and "_"
C39_InvokedByKeyPrefix ==
  hInvoked.called =>
    \A p \in hInvoked.processors :
      HasPrefix(DestinationKey(p.sourceName, p.ID), hInvoked.sourceName \o << "_" >>)

(***************************************************************************)
(* LogQueue: the channel and its depth counter under concurrent callers    *)
(***************************************************************************)
QueueCallers == 1..MaxCallers

\* LogQueue.IsFull
IsFull == qDepth >= LogQueueCap

\* Enqueue, case q.batches <- batch: the send on a channel with room
EnqueueSend(c) ==
  /\ qPc[c] = "idle"
  /\ Len(qBatches) < LogQueueCap
  /\ qBatches' = Append(qBatches, c)
  /\ qPc' = [qPc EXCEPT ![c] = "sent"]
  /\ UNCHANGED << qDepth, qReturn >>
  /\ UNCHANGED depthRest

\* Enqueue, atomic.AddInt64(&q.depth, 1); return true
EnqueueAddDepth(c) ==
  /\ qPc[c] = "sent"
  /\ qDepth' = qDepth + 1
  /\ qPc' = [qPc EXCEPT ![c] = "idle"]
  /\ qReturn' = [qReturn EXCEPT ![c] = "true"]
  /\ UNCHANGED qBatches
  /\ UNCHANGED depthRest

\* Enqueue, default: the channel is full, return false
EnqueueDefault(c) ==
  /\ qPc[c] = "idle"
  /\ Len(qBatches) = LogQueueCap
  /\ qReturn' = [qReturn EXCEPT ![c] = "false"]
  /\ UNCHANGED << qBatches, qDepth, qPc >>
  /\ UNCHANGED depthRest

\* Dequeue, case batch := <-q.batches
DequeueRecv(c) ==
  /\ qPc[c] = "idle"
  /\ qBatches # << >>
  /\ qBatches' = Tail(qBatches)
  /\ qPc' = [qPc EXCEPT ![c] = "received"]
  /\ UNCHANGED << qDepth, qReturn >>
  /\ UNCHANGED depthRest

\* Dequeue, atomic.AddInt64(&q.depth, -1); return batch
DequeueAddDepth(c) ==
  /\ qPc[c] = "received"
  /\ qDepth' = qDepth - 1
  /\ qPc' = [qPc EXCEPT ![c] = "idle"]
  /\ qReturn' = [qReturn EXCEPT ![c] = "batch"]
  /\ UNCHANGED qBatches
  /\ UNCHANGED depthRest

\* Dequeue, default: the channel is empty, return nil
DequeueDefault(c) ==
  /\ qPc[c] = "idle"
  /\ qBatches = << >>
  /\ qReturn' = [qReturn EXCEPT ![c] = "nil"]
  /\ UNCHANGED << qBatches, qDepth, qPc >>
  /\ UNCHANGED depthRest

NextDepth ==
  \/ \E c \in QueueCallers : EnqueueSend(c)
  \/ \E c \in QueueCallers : EnqueueAddDepth(c)
  \/ \E c \in QueueCallers : EnqueueDefault(c)
  \/ \E c \in QueueCallers : DequeueRecv(c)
  \/ \E c \in QueueCallers : DequeueAddDepth(c)
  \/ \E c \in QueueCallers : DequeueDefault(c)

SpecDepth == Init /\ [][NextDepth]_vars

\* no Enqueue and no Dequeue is in progress
QueueQuiet == \A c \in QueueCallers : qPc[c] = "idle"

\* C40: under every interleaving of concurrent Enqueue and Dequeue calls the
\* depth counter stays between 0 and the capacity, and it equals the number
\* of batches in the channel whenever no Enqueue or Dequeue is in progress.
C40_DepthBetweenZeroAndCapacity ==
  /\ qDepth >= 0
  /\ qDepth <= LogQueueCap
  /\ QueueQuiet => qDepth = Len(qBatches)

\* what the code keeps: the counter is the length of the channel, less the
\* sends and plus the receives whose AddInt64 is still to come; so it is the
\* length when the queue is quiet, and IsFull is then the truth
C40_DepthIsChannelAndPending ==
  /\ qDepth = Len(qBatches)
              - Cardinality({c \in QueueCallers : qPc[c] = "sent"})
              + Cardinality({c \in QueueCallers : qPc[c] = "received"})
  /\ QueueQuiet => qDepth = Len(qBatches)
  /\ QueueQuiet => (IsFull <=> Len(qBatches) = LogQueueCap)

\* what the code keeps: Enqueue on a full channel returns false at once and
\* leaves the counter and the channel alone
C40_FullEnqueueLeavesDepth ==
  [][\A c \in QueueCallers :
       (qPc[c] = "idle" /\ Len(qBatches) = LogQueueCap /\ qReturn'[c] = "false"
          /\ qReturn[c] # "false")
         => (qDepth' = qDepth /\ qBatches' = qBatches /\ qPc'[c] = "idle")]_vars

====
